---- MODULE Spec2Model ----
(***************************************************************************)
(* Model of llmcli (matee8/taic): the interactive chat session engine of   *)
(* src/src/main.rs with its providers (chatbots/gemini.rs, dummy.rs) and   *)
(* the session store (session.rs).                                         *)
(*                                                                         *)
(* Text.  A Rust String is a sequence of atoms.  An atom is a TLA+ string  *)
(* that stands for a piece of text without whitespace: " " and "\t" are    *)
(* the whitespace atoms, "/" is the command sigil, "." the dot of a file   *)
(* name.  "/system be  terse" is <<"/","system"," ","be"," "," ","terse">>.*)
(* Fixed texts of the program (its messages) are one atom each.            *)
(*                                                                         *)
(* Environment.  Writes to the terminal succeed; the session directory     *)
(* exists and is writable; only this program writes to it.                 *)
(***************************************************************************)
EXTENDS Integers, Sequences, FiniteSets, TLC

VARIABLES
    pc,            \* "start" | "awaiting" | "streaming" | "exited"
    chatbot,       \* the active Box<dyn Chatbot> (NoChatbot before startup)
    messages,      \* session.messages, the transcript
    files,         \* the session directory: path -> serialized session
    env_key,       \* the GEMINI_API_KEY environment variable (None if unset)
    is_terminal,   \* io::stdin().is_terminal()
    history_file,  \* run_chat's history_file is Some(path)
    last_input,    \* the line rl.readline returned last (None: none yet)
    stream,        \* the open ResponseStream of handle_chat_message
    turn,          \* record of the current / last chat turn
    out,           \* what was printed since the last line was read
    exit,          \* how the process ended (NoExit while running)
    history_saved, \* what rl.save_history returned: "none" while not called
    config_file,   \* ConfigManager's config.toml: <<>> or <<its content>>
    call           \* the last call made on the library directly

vars == <<pc, chatbot, messages, files, env_key, is_terminal, history_file,
          last_input, stream, turn, out, exit, history_saved, config_file,
          call>>

\* What the binary of main.rs never touches
lib_vars == <<config_file, call>>

\* What belongs to the run of the binary
engine_vars == <<pc, chatbot, messages, files, is_terminal, history_file,
                 last_input, stream, turn, out, exit, history_saved>>

\* ------------------------------------------------------------------ bounds

\* Chat lines are read only while the transcript holds fewer User messages.
MaxMsgs == 2
\* A network response stream delivers at most this many chunks.
MaxChunks == 2

\* -------------------------------------------------------------------- text

None == <<"<none>">>

WS == {" ", "\t"}

RECURSIVE concat(_)
\* [String]::concat / repeated push_str
concat(ss) == IF ss = <<>> THEN <<>> ELSE Head(ss) \o concat(Tail(ss))

RECURSIVE split_ws_from(_, _, _)
split_ws_from(s, cur, acc) ==
    IF s = <<>>
    THEN IF cur = <<>> THEN acc ELSE Append(acc, cur)
    ELSE IF Head(s) \in WS
         THEN split_ws_from(Tail(s), <<>>,
                            IF cur = <<>> THEN acc ELSE Append(acc, cur))
         ELSE split_ws_from(Tail(s), Append(cur, Head(s)), acc)

\* str::split_whitespace().collect(): the maximal runs of non-whitespace
split_whitespace(s) == split_ws_from(s, <<>>, <<>>)

RECURSIVE join(_, _)
\* [&str]::join(sep)
join(parts, sep) ==
    IF parts = <<>> THEN <<>>
    ELSE IF Len(parts) = 1 THEN Head(parts)
    ELSE Head(parts) \o sep \o join(Tail(parts), sep)

\* str::trim().is_empty()
trim_is_empty(s) == \A i \in 1..Len(s) : s[i] \in WS

\* str::starts_with('/')
starts_with_slash(s) == Len(s) > 0 /\ s[1] = "/"

\* ---------------------------------------------------------------- messages

Roles == {"System", "User", "Assistant"}

\* Message::new
Message(role, content) == [role |-> role, content |-> content]

RECURSIVE retain_not_system(_)
\* Vec::retain(|msg| msg.role != Role::System)
retain_not_system(ms) ==
    IF ms = <<>> THEN <<>>
    ELSE IF Head(ms).role = "System" THEN retain_not_system(Tail(ms))
    ELSE <<Head(ms)>> \o retain_not_system(Tail(ms))

RECURSIVE find_system(_)
\* iter().find(|msg| msg.role == Role::System): <<m>> or <<>>
find_system(ms) ==
    IF ms = <<>> THEN <<>>
    ELSE IF Head(ms).role = "System" THEN <<Head(ms)>>
    ELSE find_system(Tail(ms))

\* ----------------------------------------------------------------- printer

app_message(text) == [kind |-> "app", text |-> text]
error_message(text) == [kind |-> "error", text |-> text]
chatbot_prefix(name) == [kind |-> "prefix", text |-> <<name>>]
raw_text(text) == [kind |-> "raw", text |-> text]

\* ------------------------------------------------------------- lib.rs types

Ok(v) == [ok |-> TRUE, panic |-> FALSE, val |-> v]
Err(e) == [ok |-> FALSE, panic |-> FALSE, err |-> e]

\* <[&str]>::contains
contains(arr, x) == \E i \in 1..Len(arr) : arr[i] = x

\* #[error(...)] of InvalidModelError
InvalidModelError == <<"Invalid model.">>

\* #[error(...)] of ChatbotCreationError
ChatbotCreationError_to_string(e) ==
    CASE e = "ApiKeyMissing" -> <<"API key missing.">>
      [] e = "UnknownChatbot" -> <<"Unknown chatbot.">>
      [] e = "UnknownModel" -> <<"Unknown model.">>

\* #[error(...)] of ChatbotError; NetworkError wraps the transport detail
ChatbotError_to_string(e) ==
    CASE e = "Timeout" -> <<"Timeout.">>
      [] e = "NetworkError" -> <<"Network error: ", "<reqwest::Error>", ".">>
      [] e = "UnexpectedResponse" -> <<"Unexpected response.">>

\* The value of a panicking expression (unreachable!(), slice out of range).
Panic == <<"<panic>">>
\* A call that panicked instead of returning.
Panics == [ok |-> FALSE, panic |-> TRUE]

NoChatbot == [kind |-> "None"]

\* ------------------------------------------------------ chatbots/gemini.rs

GEMINI_BASE_URL == "https://generativelanguage.googleapis.com/v1beta/models/"

Gemini_AVAILABLE_MODELS ==
    << <<"gemini-2.0-flash-exp">>, <<"gemini-1.5-flash">>,
       <<"gemini-1.5-flash-8b">>, <<"gemini-1.5-pro">>, <<"gemini-1.0-pro">> >>

\* format!("{GEMINI_BASE_URL}{model}:streamGenerateContent?alt=sse&key={api_key}")
Gemini_url(model, api_key) ==
    <<GEMINI_BASE_URL>> \o model \o <<":streamGenerateContent?alt=sse&key=">>
        \o api_key

\* GeminiChatbot::create; env is the GEMINI_API_KEY variable
GeminiChatbot_create(model, api_key, env) ==
    LET key == IF api_key # None THEN api_key ELSE env
    IN  IF key = None THEN Err("ApiKeyMissing")
        ELSE IF ~contains(Gemini_AVAILABLE_MODELS, model)
             THEN Err("UnknownModel")
        ELSE Ok([kind |-> "Gemini", api_key |-> key, model |-> model,
                 url |-> Gemini_url(model, key)])

\* GeminiChatbot::model
Gemini_model(self) ==
    CASE self.model = <<"gemini-2.0-flash-exp">> -> <<"2.0 Flash (Experimental)">>
      [] self.model = <<"gemini-1.5-flash">> -> <<"1.5 Flash">>
      [] self.model = <<"gemini-1.5-flash-8b">> -> <<"1.5 Flash-8B">>
      [] self.model = <<"gemini-1.5-pro">> -> <<"1.5 Pro">>
      [] self.model = <<"gemini-1.0-pro">> -> <<"1.0 Pro (Deprecated)">>
      [] OTHER -> Panic

\* (no validation of the id)
Gemini_change_model_unchecked(self, new_model) ==
    Ok([self EXCEPT !.model = new_model,
                    !.url = Gemini_url(new_model, self.api_key)])

\* (the url is not rebuilt)
Gemini_change_model_stale_url(self, new_model) ==
    IF ~contains(Gemini_AVAILABLE_MODELS, new_model)
    THEN Err(self)
    ELSE Ok([self EXCEPT !.model = new_model])

\* (the id is assigned before it is validated)
Gemini_change_model_assign_first(self, new_model) ==
    IF ~contains(Gemini_AVAILABLE_MODELS, new_model)
    THEN Err([self EXCEPT !.model = new_model])
    ELSE Ok([self EXCEPT !.model = new_model,
                         !.url = Gemini_url(new_model, self.api_key)])

\* GeminiChatbot::change_model
Gemini_change_model(self, new_model) ==
    IF ~contains(Gemini_AVAILABLE_MODELS, new_model)
    THEN Err(self)
    ELSE Ok([self EXCEPT !.model = new_model,
                         !.url = Gemini_url(new_model, self.api_key)])

RECURSIVE Gemini_contents_unfiltered(_)
\* (every message of the transcript is mapped, the System one too)
Gemini_contents_unfiltered(ms) ==
    IF ms = <<>> THEN <<>>
    ELSE << [role |-> Head(ms).role,
             parts |-> << [text |-> Head(ms).content] >>] >>
         \o Gemini_contents_unfiltered(Tail(ms))

RECURSIVE Gemini_contents(_)
\* messages.iter().filter(|msg| msg.role != Role::System).map(GeminiMessage)
Gemini_contents(ms) ==
    IF ms = <<>> THEN <<>>
    ELSE IF Head(ms).role = "System" THEN Gemini_contents(Tail(ms))
    ELSE << [role |-> Head(ms).role,
             parts |-> << [text |-> Head(ms).content] >>] >>
         \o Gemini_contents(Tail(ms))

\* The POST that GeminiChatbot::send_message issues: self.url and GeminiRequest
Gemini_request(self, ms) ==
    LET sys == find_system(ms)
    IN  [url |-> self.url,
         system_instruction |->
             IF sys = <<>> THEN <<>>
             ELSE << [parts |-> << [text |-> sys[1].content] >>] >>,
         contents |-> Gemini_contents(ms)]

\* ------------------------------------------------------- chatbots/dummy.rs

Dummy_AVAILABLE_MODELS == << <<"1">>, <<"2">> >>

\* DummyChatbot::create
DummyChatbot_create(model, api_key) ==
    IF contains(Dummy_AVAILABLE_MODELS, model)
    THEN Ok([kind |-> "Dummy", model |-> model])
    ELSE Err("UnknownModel")

\* DummyChatbot::model
Dummy_model(self) ==
    CASE self.model = <<"1">> -> <<"Model 1">>
      [] self.model = <<"2">> -> <<"Model 2">>
      [] OTHER -> <<"Invalid Model">>

\* DummyChatbot::change_model
Dummy_change_model(self, new_model) ==
    IF contains(Dummy_AVAILABLE_MODELS, new_model)
    THEN Ok([self EXCEPT !.model = new_model])
    ELSE Err(self)

\* DummyChatbot::send_message: the one text it answers with
Dummy_send_message(ms) ==
    IF ms = <<>> THEN <<"Dummy response to empty conversation.">>
    ELSE IF ms[Len(ms)].role = "User"
         THEN <<"Dummy response to: \"">> \o ms[Len(ms)].content \o <<"\".">>
         ELSE <<"Dummy response.">>

\* --------------------------------------------------- dyn Chatbot dispatch

\* Chatbot::name
name(cb) == IF cb.kind = "Gemini" THEN "Gemini" ELSE "Dummy"

\* Chatbot::model
model(cb) == IF cb.kind = "Gemini" THEN Gemini_model(cb) ELSE Dummy_model(cb)

\* Chatbot::available_models
available_models(cb) ==
    IF cb.kind = "Gemini" THEN Gemini_AVAILABLE_MODELS
    ELSE Dummy_AVAILABLE_MODELS

\* Chatbot::change_model: Ok(changed chatbot) or Err(unchanged chatbot)
change_model(cb, new_model) ==
    IF cb.kind = "Gemini" THEN Gemini_change_model(cb, new_model)
    ELSE Dummy_change_model(cb, new_model)

\* ------------------------------------- chatbots/gemini.rs: stream decoding

\* Bytes are atoms of one byte each, except the blobs: an atom of Blobs is a
\* run of more than PrefixLen bytes (a JSON text, or a part of one).
PrefixLen == 5

\* JSON texts and what serde_json makes of them as a GeminiResponse.
GeminiDocs ==
    [d \in {"J_hi", "J_there", "J_two", "J_nocand", "J_noparts"} |->
        CASE d = "J_hi" ->
               [candidates |-> << [content |-> [role |-> "Assistant",
                      parts |-> << [text |-> <<"Hi">>] >>]] >>]
          [] d = "J_there" ->
               [candidates |-> << [content |-> [role |-> "Assistant",
                      parts |-> << [text |-> <<" ", "there">>] >>]] >>]
          [] d = "J_two" ->
               [candidates |->
                  << [content |-> [role |-> "Assistant",
                      parts |-> << [text |-> <<"A">>], [text |-> <<"B">>] >>]],
                     [content |-> [role |-> "Assistant",
                      parts |-> << [text |-> <<"C">>] >>]] >>]
          [] d = "J_nocand" -> [candidates |-> <<>>]
          [] d = "J_noparts" ->
               [candidates |-> << [content |-> [role |-> "Assistant",
                      parts |-> <<>>]] >>] ]

Blobs == DOMAIN GeminiDocs \cup {"J_not_json", "J_hi_head", "J_hi_tail"}

JsonWS == {" ", "\t", "\n", "\r"}

RECURSIVE slice_from(_, _)
\* &bytes[n..]: panics when bytes is shorter than n
slice_from(bytes, n) ==
    IF n = 0 THEN Ok(bytes)
    ELSE IF bytes = <<>> THEN Panics
    ELSE IF Head(bytes) \in Blobs THEN Ok(<<"<cut>">> \o Tail(bytes))
    ELSE slice_from(Tail(bytes), n - 1)

\* serde_json::from_slice::<GeminiResponse>: one JSON text of the schema,
\* with nothing but whitespace around it
from_slice(bytes) ==
    LET core == SelectSeq(bytes, LAMBDA b : b \notin JsonWS)
    IN  IF Len(core) = 1 /\ core[1] \in DOMAIN GeminiDocs
        THEN Ok(GeminiDocs[core[1]])
        ELSE Err("UnexpectedResponse")

\* (the increment is the text of every part of the first candidate)
Gemini_decode_all_parts(item) ==
    IF ~item.ok THEN Err("UnexpectedResponse")
    ELSE LET rest == slice_from(item.val, PrefixLen)
         IN  IF rest.panic THEN Panics
             ELSE LET gemini_resp == from_slice(rest.val)
                  IN  IF ~gemini_resp.ok THEN Err("UnexpectedResponse")
                      ELSE IF gemini_resp.val.candidates = <<>>
                           THEN Err("UnexpectedResponse")
                      ELSE IF gemini_resp.val.candidates[1].content.parts = <<>>
                           THEN Err("UnexpectedResponse")
                      ELSE LET parts == gemini_resp.val.candidates[1].content.parts
                           IN  Ok(concat([i \in 1..Len(parts) |-> parts[i].text]))

\* The closure of resp_stream.map in GeminiChatbot::send_message
Gemini_decode(item) ==
    IF ~item.ok THEN Err("UnexpectedResponse")
    ELSE LET rest == slice_from(item.val, PrefixLen)
         IN  IF rest.panic THEN Panics
             ELSE LET gemini_resp == from_slice(rest.val)
                  IN  IF ~gemini_resp.ok THEN Err("UnexpectedResponse")
                      ELSE IF gemini_resp.val.candidates = <<>>
                           THEN Err("UnexpectedResponse")
                      ELSE IF gemini_resp.val.candidates[1].content.parts = <<>>
                           THEN Err("UnexpectedResponse")
                      ELSE Ok(gemini_resp.val.candidates[1].content.parts[1].text)

\* ---------------------------------------------------------------- session.rs

\* #[serde(rename_all = "lowercase")] on Role
Role_serialize(role) ==
    CASE role = "System" -> "system"
      [] role = "User" -> "user"
      [] role = "Assistant" -> "assistant"

\* Deserialize for Role, with #[serde(alias = "model")]
Role_deserialize(text) ==
    CASE text = "system" -> Ok("System")
      [] text = "user" -> Ok("User")
      [] text \in {"assistant", "model"} -> Ok("Assistant")
      [] OTHER -> Err("Serialize")

\* (System messages are left out of the snapshot)
Session_to_string_no_system(ms) ==
    [messages |-> [i \in 1..Len(retain_not_system(ms)) |->
        [role |-> Role_serialize(retain_not_system(ms)[i].role),
         content |-> retain_not_system(ms)[i].content]]]

\* serde_json::to_string(&Session)
Session_to_string(ms) ==
    [messages |-> [i \in 1..Len(ms) |->
        [role |-> Role_serialize(ms[i].role), content |-> ms[i].content]]]

\* serde_json::from_str::<Session>
Session_from_str(text) ==
    IF \E i \in 1..Len(text.messages) : ~Role_deserialize(text.messages[i].role).ok
    THEN Err("Serialize")
    ELSE Ok([i \in 1..Len(text.messages) |->
               Message(Role_deserialize(text.messages[i].role).val,
                       text.messages[i].content)])

\* Path::with_extension on a file name: the extension is what follows the
\* last dot that is not the first character
with_extension(file_name, ext) ==
    LET dots == {i \in 2..Len(file_name) : file_name[i] = "."}
    IN  IF dots = {} THEN file_name \o <<".", ext>>
        ELSE LET last == CHOOSE i \in dots : \A j \in dots : j <= i
             IN  SubSeq(file_name, 1, last - 1) \o <<".", ext>>

\* session_dir.join(filename).with_extension("json")
file_path(filename) == with_extension(filename, "json")

\* #[error(...)] of SessionError
SessionError_to_string(e) ==
    CASE e = "Serialize" ->
           <<"Failed to serialize or deserialize session: ", "<serde_json::Error>", ".">>
      [] e = "ReadFile" -> <<"Failed to read file: ", "<io::Error>", ".">>
      [] e = "NotFound" -> <<"Session not found.">>

\* Session::save: Ok(the directory afterwards)
Session_save(dir, ms, filename) ==
    LET path == file_path(filename)
    IN  Ok([p \in DOMAIN dir \cup {path} |->
              IF p = path THEN Session_to_string(ms) ELSE dir[p]])

\* Session::load: Ok(messages) or Err
Session_load(dir, filename) ==
    LET path == file_path(filename)
    IN  IF path \notin DOMAIN dir THEN Err("ReadFile")
        ELSE Session_from_str(dir[path])

\* Session::delete: Ok(the directory afterwards) or Err
Session_delete(dir, filename) ==
    LET path == file_path(filename)
    IN  IF path \in DOMAIN dir
        THEN Ok([p \in DOMAIN dir \ {path} |-> dir[p]])
        ELSE Err("NotFound")

RECURSIVE trim_end_matches_json(_)
\* str::trim_end_matches(".json")
trim_end_matches_json(s) ==
    IF Len(s) >= 2 /\ s[Len(s) - 1] = "." /\ s[Len(s)] = "json"
    THEN trim_end_matches_json(SubSeq(s, 1, Len(s) - 2))
    ELSE s

\* Session::list_all; entries is the order in which read_dir yields the files
Session_list_all(entries) ==
    LET session_files ==
            SelectSeq(entries, LAMBDA f : Len(f) > 2 /\ f[Len(f) - 1] = "."
                                             /\ f[Len(f)] = "json")
    IN  [i \in 1..Len(session_files) |-> trim_end_matches_json(session_files[i])]

\* ------------------------------------------------- main.rs: handle_command

\* #[error(...)] of CommandError
CommandError_Quit == [type |-> "Quit", text |-> <<"User quit.">>]
CommandError_ChatbotSwitch(e) ==
    [type |-> "ChatbotSwitch", text |-> ChatbotCreationError_to_string(e)]
CommandError_Session(e) ==
    [type |-> "Session", text |-> SessionError_to_string(e)]

\* What one call of handle_command leaves behind: the session, the chatbot,
\* the session directory, what it printed, and its Result (or a panic).
Outcome(ms, cb, dir, printed, result) ==
    [messages |-> ms, chatbot |-> cb, files |-> dir, out |-> printed,
     result |-> result]

\* (the System message survives)
cmd_clear_keep_system(parts, ms, cb, dir) ==
    Outcome(find_system(ms), cb, dir,
            <<app_message(<<"Context cleared.">>)>>, Ok(<<>>))

\* "/clear" | "/c"
cmd_clear(parts, ms, cb, dir) ==
    Outcome(<<>>, cb, dir, <<app_message(<<"Context cleared.">>)>>, Ok(<<>>))

\* (the old System message is kept)
cmd_system_no_retain(parts, ms, cb, dir) ==
    IF Len(parts) > 1
    THEN Outcome(<<Message("System", join(Tail(parts), <<" ">>))>> \o ms, cb, dir,
                 <<app_message(<<"System prompt set.">>)>>, Ok(<<>>))
    ELSE Outcome(ms, cb, dir,
                 <<error_message(<<"System prompt is required. Usage: /system <prompt>">>)>>,
                 Ok(<<>>))

\* (the new System message is pushed at the end)
cmd_system_push(parts, ms, cb, dir) ==
    IF Len(parts) > 1
    THEN Outcome(Append(retain_not_system(ms),
                        Message("System", join(Tail(parts), <<" ">>))), cb, dir,
                 <<app_message(<<"System prompt set.">>)>>, Ok(<<>>))
    ELSE Outcome(ms, cb, dir,
                 <<error_message(<<"System prompt is required. Usage: /system <prompt>">>)>>,
                 Ok(<<>>))

\* "/system" | "/sys"
cmd_system(parts, ms, cb, dir) ==
    IF Len(parts) > 1
    THEN LET new_msg == Message("System", join(Tail(parts), <<" ">>))
         IN  Outcome(<<new_msg>> \o retain_not_system(ms), cb, dir,
                     <<app_message(<<"System prompt set.">>)>>, Ok(<<>>))
    ELSE Outcome(ms, cb, dir,
                 <<error_message(<<"System prompt is required. Usage: /system <prompt>">>)>>,
                 Ok(<<>>))

\* (a provider that cannot be constructed is replaced by the Dummy provider)
cmd_chatbot_falls_back(parts, ms, cb, dir, env) ==
    IF Len(parts) > 1
    THEN LET created ==
                 IF parts[2] = <<"gemini">>
                 THEN GeminiChatbot_create(<<"gemini-1.5-flash">>, None, env)
                 ELSE DummyChatbot_create(<<"1">>, None)
             fallback == [kind |-> "Dummy", model |-> <<"1">>]
         IN  IF parts[2] \notin {<<"gemini">>, <<"dummy">>}
             THEN Outcome(ms, fallback, dir,
                          <<error_message(<<"Invalid chatbot.">>)>>, Ok(<<>>))
             ELSE IF ~created.ok
             THEN Outcome(ms, fallback, dir, <<>>,
                          Err(CommandError_ChatbotSwitch(created.err)))
             ELSE Outcome(ms, created.val, dir,
                          <<app_message(<<"Chatbot changed to ", name(created.val)>>)>>,
                          Ok(<<>>))
    ELSE Outcome(ms, cb, dir,
                 <<error_message(<<"Chatbot is required. Usage: /chatbot <chatbot>">>)>>,
                 Ok(<<>>))

\* (the conversation is started afresh with the new provider)
cmd_chatbot_new_conversation(parts, ms, cb, dir, env) ==
    IF Len(parts) > 1
    THEN LET created ==
                 IF parts[2] = <<"gemini">>
                 THEN GeminiChatbot_create(<<"gemini-1.5-flash">>, None, env)
                 ELSE DummyChatbot_create(<<"1">>, None)
         IN  IF parts[2] \notin {<<"gemini">>, <<"dummy">>}
             THEN Outcome(ms, cb, dir,
                          <<error_message(<<"Invalid chatbot.">>)>>, Ok(<<>>))
             ELSE IF ~created.ok
             THEN Outcome(ms, cb, dir, <<>>,
                          Err(CommandError_ChatbotSwitch(created.err)))
             ELSE Outcome(<<>>, created.val, dir,
                          <<app_message(<<"Chatbot changed to ", name(created.val)>>)>>,
                          Ok(<<>>))
    ELSE Outcome(ms, cb, dir,
                 <<error_message(<<"Chatbot is required. Usage: /chatbot <chatbot>">>)>>,
                 Ok(<<>>))

\* "/chatbot" | "/cb"; env is the GEMINI_API_KEY variable
cmd_chatbot(parts, ms, cb, dir, env) ==
    IF Len(parts) > 1
    THEN LET created ==
                 IF parts[2] = <<"gemini">>
                 THEN GeminiChatbot_create(<<"gemini-1.5-flash">>, None, env)
                 ELSE DummyChatbot_create(<<"1">>, None)
         IN  IF parts[2] \notin {<<"gemini">>, <<"dummy">>}
             THEN Outcome(ms, cb, dir,
                          <<error_message(<<"Invalid chatbot.">>)>>, Ok(<<>>))
             ELSE IF ~created.ok
             THEN Outcome(ms, cb, dir, <<>>,
                          Err(CommandError_ChatbotSwitch(created.err)))
             ELSE Outcome(ms, created.val, dir,
                          <<app_message(<<"Chatbot changed to ", name(created.val)>>)>>,
                          Ok(<<>>))
    ELSE Outcome(ms, cb, dir,
                 <<error_message(<<"Chatbot is required. Usage: /chatbot <chatbot>">>)>>,
                 Ok(<<>>))

\* "/list_chatbots" | "/lc"
cmd_list_chatbots(parts, ms, cb, dir) ==
    Outcome(ms, cb, dir,
            <<app_message(<<"Available chatbots:">>),
              app_message(<<"\tgemini - Google Gemini">>),
              app_message(<<"\tdummy - Dummy">>)>>, Ok(<<>>))

\* "/model" | "/m"
cmd_model(parts, ms, cb, dir) ==
    IF Len(parts) > 1
    THEN LET changed == change_model(cb, parts[2])
         IN  IF changed.ok
             THEN IF model(changed.val) = Panic
                  THEN Outcome(ms, changed.val, dir, <<>>, Panics)
                  ELSE Outcome(ms, changed.val, dir,
                               <<app_message(<<"Chatbot model changed to ">>
                                             \o model(changed.val))>>, Ok(<<>>))
             ELSE Outcome(ms, changed.err, dir,
                          <<error_message(InvalidModelError)>>, Ok(<<>>))
    ELSE Outcome(ms, cb, dir,
                 <<error_message(<<"Model is required. Usage: /model <model>">>)>>,
                 Ok(<<>>))

\* "/list_models" | "/lm"
cmd_list_models(parts, ms, cb, dir) ==
    Outcome(ms, cb, dir,
            <<app_message(<<"Available models:">>)>> \o
            [i \in 1..Len(available_models(cb)) |->
                app_message(<<"\t">> \o available_models(cb)[i])],
            Ok(<<>>))

\* "/info" | "/i"
cmd_info(parts, ms, cb, dir) ==
    IF model(cb) = Panic
    THEN Outcome(ms, cb, dir,
                 <<app_message(<<"Current chatbot: ", name(cb)>>)>>, Panics)
    ELSE Outcome(ms, cb, dir,
            <<app_message(<<"Current chatbot: ", name(cb)>>),
              app_message(<<"Current model: ">> \o model(cb))>> \o
            (IF find_system(ms) = <<>> THEN <<>>
             ELSE <<app_message(<<"System prompt: ">> \o find_system(ms)[1].content)>>),
            Ok(<<>>))

\* The lines that "/help" | "/h" prints, in order
help_lines ==
    << "Available commands:",
       "\t/clear or /c - Clear the conversation history (including system prompt)",
       "\t/system <prompt> or /sys <prompt> - Set the system prompt",
       "\t/chatbot <chatbot> or /cb <chatbot> - Change the chatbot",
       "\t/list_chatbots or /lc - List all available chatbots",
       "\t/model <model> or /m <model> - Change the chatbot model",
       "\t/list_models or /lm - List all available models for current chatbot",
       "\t/info or /i - Display current chatbot and model information",
       "\t/save <filename> or /s <filename> - Save the session",
       "\t/load <filename> or /l <filename> - Load a saved session",
       "\t/delete <filename> or /d - Delete a session",
       "\t/sessions or /se - List all saved session",
       "\t/delete <filename> or /d - Delete a session",
       "\t/help or /h - List all available commands",
       "\t/quit or /q - Exit the application" >>

\* "/help" | "/h"
cmd_help(parts, ms, cb, dir) ==
    Outcome(ms, cb, dir,
            [i \in 1..Len(help_lines) |-> app_message(<<help_lines[i]>>)],
            Ok(<<>>))

\* "/save" | "/s"
cmd_save(parts, ms, cb, dir) ==
    IF Len(parts) > 1
    THEN Outcome(ms, cb, Session_save(dir, ms, parts[2]).val,
                 <<app_message(<<"Session saved to ">> \o parts[2] \o <<".json">>)>>,
                 Ok(<<>>))
    ELSE Outcome(ms, cb, dir,
                 <<error_message(<<"Filename is required. Usage: /save <filename>">>)>>,
                 Ok(<<>>))

\* (a load that fails leaves an empty transcript)
cmd_load_clears_on_failure(parts, ms, cb, dir) ==
    IF Len(parts) > 1
    THEN LET loaded_session == Session_load(dir, parts[2])
         IN  IF loaded_session.ok
             THEN Outcome(loaded_session.val, cb, dir,
                          <<app_message(<<"Session loaded from ">> \o parts[2]
                                        \o <<".json">>)>>, Ok(<<>>))
             ELSE Outcome(<<>>, cb, dir, <<>>,
                          Err(CommandError_Session(loaded_session.err)))
    ELSE Outcome(ms, cb, dir,
                 <<error_message(<<"Filename is required. Usage: /load <filename>">>)>>,
                 Ok(<<>>))

\* "/load" | "/l"
cmd_load(parts, ms, cb, dir) ==
    IF Len(parts) > 1
    THEN LET loaded_session == Session_load(dir, parts[2])
         IN  IF loaded_session.ok
             THEN Outcome(loaded_session.val, cb, dir,
                          <<app_message(<<"Session loaded from ">> \o parts[2]
                                        \o <<".json">>)>>, Ok(<<>>))
             ELSE Outcome(ms, cb, dir, <<>>,
                          Err(CommandError_Session(loaded_session.err)))
    ELSE Outcome(ms, cb, dir,
                 <<error_message(<<"Filename is required. Usage: /load <filename>">>)>>,
                 Ok(<<>>))

\* "/sessions" | "/se"; entries is the order in which read_dir yields the files
cmd_sessions(parts, ms, cb, dir, entries) ==
    LET sessions == Session_list_all(entries)
    IN  IF sessions = <<>>
        THEN Outcome(ms, cb, dir,
                     <<error_message(<<"No saved sessions found.">>)>>, Ok(<<>>))
        ELSE Outcome(ms, cb, dir,
                     <<app_message(<<"Saved sessions:">>)>> \o
                     [i \in 1..Len(sessions) |-> app_message(<<"\t">> \o sessions[i])],
                     Ok(<<>>))

\* "/delete" | "/d"
cmd_delete(parts, ms, cb, dir) ==
    IF Len(parts) > 1
    THEN LET deleted == Session_delete(dir, parts[2])
         IN  IF deleted.ok
             THEN Outcome(ms, cb, deleted.val,
                          <<app_message(<<"Session ">> \o parts[2]
                                        \o <<".json deleted.">>)>>, Ok(<<>>))
             ELSE Outcome(ms, cb, dir, <<>>,
                          Err(CommandError_Session(deleted.err)))
    ELSE Outcome(ms, cb, dir,
                 <<error_message(<<"Filename is required. Usage: /delete <filename>">>)>>,
                 Ok(<<>>))

\* "/quit" | "/q"
cmd_quit(parts, ms, cb, dir) ==
    Outcome(ms, cb, dir, <<app_message(<<"Quitting...">>)>>,
            Err(CommandError_Quit))

\* (the transcript is cleared as well)
cmd_invalid_clears(parts, ms, cb, dir) ==
    Outcome(<<>>, cb, dir,
            <<error_message(<<"Invalid command. Use /help or /h for a list of commands.">>)>>,
            Ok(<<>>))

\* the `_` arm
cmd_invalid(parts, ms, cb, dir) ==
    Outcome(ms, cb, dir,
            <<error_message(<<"Invalid command. Use /help or /h for a list of commands.">>)>>,
            Ok(<<>>))

\* handle_command(line, session, chatbot, printer)
handle_command(line, ms, cb, dir, env, entries) ==
    LET parts == split_whitespace(line)
    IN  IF parts = <<>>
        THEN Outcome(ms, cb, dir,
                     <<error_message(<<"No command specified.">>)>>, Ok(<<>>))
        ELSE LET command == parts[1]
             IN  CASE command \in {<<"/", "clear">>, <<"/", "c">>} ->
                        cmd_clear(parts, ms, cb, dir)
                   [] command \in {<<"/", "system">>, <<"/", "sys">>} ->
                        cmd_system(parts, ms, cb, dir)
                   [] command \in {<<"/", "chatbot">>, <<"/", "cb">>} ->
                        cmd_chatbot(parts, ms, cb, dir, env)
                   [] command \in {<<"/", "list_chatbots">>, <<"/", "lc">>} ->
                        cmd_list_chatbots(parts, ms, cb, dir)
                   [] command \in {<<"/", "model">>, <<"/", "m">>} ->
                        cmd_model(parts, ms, cb, dir)
                   [] command \in {<<"/", "list_models">>, <<"/", "lm">>} ->
                        cmd_list_models(parts, ms, cb, dir)
                   [] command \in {<<"/", "info">>, <<"/", "i">>} ->
                        cmd_info(parts, ms, cb, dir)
                   [] command \in {<<"/", "help">>, <<"/", "h">>} ->
                        cmd_help(parts, ms, cb, dir)
                   [] command \in {<<"/", "save">>, <<"/", "s">>} ->
                        cmd_save(parts, ms, cb, dir)
                   [] command \in {<<"/", "load">>, <<"/", "l">>} ->
                        cmd_load(parts, ms, cb, dir)
                   [] command \in {<<"/", "sessions">>, <<"/", "se">>} ->
                        cmd_sessions(parts, ms, cb, dir, entries)
                   [] command \in {<<"/", "delete">>, <<"/", "d">>} ->
                        cmd_delete(parts, ms, cb, dir)
                   [] command \in {<<"/", "quit">>, <<"/", "q">>} ->
                        cmd_quit(parts, ms, cb, dir)
                   [] OTHER -> cmd_invalid(parts, ms, cb, dir)

\* ------------------------------------------------------- main.rs: ChatError

ChatError_Read == [type |-> "Read", inner |-> "io",
                   text |-> <<"Failed to read from stdin: ", "<io::Error>", ".">>]
ChatError_Readline(e) == [type |-> "Readline", inner |-> e, text |-> <<e, ".">>]
ChatError_Chatbot(e) ==
    [type |-> "Chatbot", inner |-> e, text |-> ChatbotError_to_string(e)]
ChatError_Command(ce) == [type |-> "Command", inner |-> ce.type, text |-> ce.text]
NoError == [type |-> "None", inner |-> "None", text |-> <<>>]

\* How the process ended: kind is "Ok" (main returned), "Err" (run_chat
\* returned Err and main called process::exit(1)), "Startup" (main exited
\* before run_chat), "Panic", or "Running".
NoExit == [kind |-> "Running", code |-> -1, err |-> NoError]
Exit(kind, code, err) == [kind |-> kind, code |-> code, err |-> err]

\* -------------------------------------------------------------- the inputs

\* The lines that rl.readline returns are drawn from these sets.
BlankLines == { <<>>, <<" ">>, <<"\t", " ">> }

ChatLines == { <<"hello">>, <<" ", "/", "clear">> }

\* Commands of the conversation: the transcript, the provider, stopping
EngineLines ==
    { <<"/", "clear">>,
      <<"/", "system", " ", "x">>,
      <<"/", "chatbot", " ", "dummy">>, <<"/", "cb", " ", "gemini">>,
      <<"/", "chatbot", " ", "nope">>,
      <<"/", "model">>,
      <<"/", "load", " ", "nosuch">>, <<"/", "delete", " ", "nosuch">>,
      <<"/", "quit">>, <<"/", "q">>,
      <<"/", "bogus">> }

\* Commands on the provider and its model
ModelLines ==
    { <<"/", "chatbot", " ", "dummy">>, <<"/", "cb", " ", "gemini">>,
      <<"/", "chatbot", " ", "nope">>, <<"/", "chatbot">>,
      <<"/", "model", " ", "1">>, <<"/", "m", " ", "2">>,
      <<"/", "model", " ", "gemini-2.0-flash-exp">>,
      <<"/", "model", " ", "gemini-1.5-flash">>,
      <<"/", "model", " ", "gemini-1.5-flash-8b">>,
      <<"/", "m", " ", "gemini-1.5-pro">>,
      <<"/", "model", " ", "gemini-1.0-pro">>,
      <<"/", "model", " ", "not-a-real-model">>, <<"/", "model">>,
      <<"/", "list_models">>, <<"/", "info">> }

\* Commands on the transcript and its snapshots
SessionLines ==
    { <<"/", "clear">>,
      <<"/", "system", " ", "x">>,
      <<"/", "sys", " ", "be", " ", " ", "terse", " ">>,
      <<"/", "system">>,
      <<"/", "save", " ", "a">>, <<"/", "load", " ", "a">>,
      <<"/", "load", " ", "nosuch">>,
      <<"/", "delete", " ", "a">>, <<"/", "delete", " ", "nosuch">>,
      <<"/", "sessions">> }

\* What the network can deliver as one item of bytes_stream().
Chunks ==
    { <<"d", "a", "t", "a", ":", " ", "J_hi", "\n", "\n">>,
      <<"d", "a", "t", "a", ":", " ", "J_there", "\n", "\n">>,
      <<"d", "a", "t", "a", ":", " ", "J_not_json", "\n", "\n">>,
      <<"\n">> }

TransportItems == {Ok(c) : c \in Chunks} \cup {Err("transport")}

\* One well-formed chunk, or a transport error
PlainItems ==
    { Ok(<<"d", "a", "t", "a", ":", " ", "J_hi", "\n", "\n">>), Err("transport") }

\* The orders in which read_dir can yield the files of the directory.
DirOrders(dir) ==
    {s \in [1..Cardinality(DOMAIN dir) -> DOMAIN dir] :
        \A i, j \in DOMAIN s : i # j => s[i] # s[j]}

\* ------------------------------------------------------------ main.rs: main

\* Err values of main before run_chat is entered
StartupError_Config ==
    [type |-> "Config", inner |-> "ConfigLoadError", text |-> <<"<ConfigLoadError>">>]
StartupError_Creation(e) ==
    [type |-> "Creation", inner |-> e, text |-> ChatbotCreationError_to_string(e)]

\* args.command, as clap parses it with cli.rs
\* (gemini with its default model, dummy, or no subcommand)
Subcommands ==
    { [kind |-> "Gemini", model |-> <<"gemini-1.5-flash">>],
      [kind |-> "Dummy", model |-> <<>>],
      [kind |-> "None", model |-> <<>>] }

\* Config::load: no file (<<>>) or a configuration
Configs ==
    { <<>> } \cup
    { << [default_chatbot |-> c, default_model |-> m, gemini |-> k] >> :
        c \in {"gemini", "dummy", "other"},
        m \in {<<"gemini-1.5-pro">>, <<"no-such-model">>},
        k \in {None, <<"CFGKEY">>} }

\* The match on args.command that creates the first chatbot
main_create(command, config, env) ==
    CASE command.kind = "Gemini" ->
           GeminiChatbot_create(command.model,
                                IF config = <<>> THEN None ELSE config[1].gemini,
                                env)
      [] command.kind = "Dummy" -> DummyChatbot_create(<<>>, None)
      [] command.kind = "None" ->
           IF config = <<>> THEN Err("UnknownChatbot")
           ELSE CASE config[1].default_chatbot = "gemini" ->
                       GeminiChatbot_create(config[1].default_model,
                                            config[1].gemini, env)
                  [] config[1].default_chatbot = "dummy" ->
                       DummyChatbot_create(<<>>, None)
                  [] OTHER -> Err("UnknownChatbot")
      [] OTHER -> Err("UnknownChatbot")

\* ------------------------------------------------- main.rs: the chat engine

NoStream == [open |-> FALSE, net |-> FALSE, pending |-> <<>>, pulled |-> 0]

\* The chat turn in progress, or the last one: the transcript before it, the
\* line, the request sent, the items the stream yielded, the text collected.
Turn(status, pre, input, oneshot, request, yielded, full_resp) ==
    [status |-> status, pre |-> pre, input |-> input, oneshot |-> oneshot,
     request |-> request, yielded |-> yielded, full_resp |-> full_resp]

NoTurn == Turn("none", <<>>, <<>>, FALSE, <<>>, <<>>, <<>>)

\* (a main that exits without reporting the error)
Terminate_silent(kind, code, err, printed) ==
    /\ pc' = "exited"
    /\ exit' = Exit(kind, code, err)
    /\ out' = printed
    /\ stream' = NoStream

\* The process ends: main prints the error of an Err and exits.
Terminate(kind, code, err, printed) ==
    /\ pc' = "exited"
    /\ exit' = Exit(kind, code, err)
    /\ out' = IF kind \in {"Err", "Startup"}
              THEN Append(printed, error_message(err.text))
              ELSE printed
    /\ stream' = NoStream

\* The branches of the loop body of run_chat for a line that was read
classify(input) ==
    IF trim_is_empty(input) THEN "blank"
    ELSE IF starts_with_slash(input) THEN "command"
    ELSE "chat"

\* run_chat: push the User message, print the prefix, and enter
\* handle_chat_message up to the first stream.next()
BeginTurn(cb, pre, input, oneshot, printed) ==
    LET ms == Append(pre, Message("User", input))
        shown == Append(printed, chatbot_prefix(name(cb)))
    IN  /\ messages' = ms
        /\ IF cb.kind = "Dummy"
           THEN /\ pc' = "streaming"
                /\ stream' = [open |-> TRUE, net |-> FALSE, pulled |-> 0,
                              pending |-> <<Ok(Dummy_send_message(ms))>>]
                /\ turn' = Turn("open", pre, input, oneshot, <<>>, <<>>, <<>>)
                /\ out' = shown
                /\ exit' = exit
           ELSE \E conn \in {"Connected", "Timeout", "NetworkError"} :
                  IF conn = "Connected"
                  THEN /\ pc' = "streaming"
                       /\ stream' = [open |-> TRUE, net |-> TRUE, pulled |-> 0,
                                     pending |-> <<>>]
                       /\ turn' = Turn("open", pre, input, oneshot,
                                       <<Gemini_request(cb, ms)>>, <<>>, <<>>)
                       /\ out' = shown
                       /\ exit' = exit
                  ELSE /\ turn' = Turn("failed", pre, input, oneshot,
                                       <<Gemini_request(cb, ms)>>,
                                       <<Err(conn)>>, <<>>)
                       /\ Terminate("Err", 1, ChatError_Chatbot(conn), shown)

\* What the history setup of run_chat prints, by how the file is found
history_setup(how) ==
    CASE how \in {"env", "cache"} -> <<>>
      [] how \in {"env_unreadable", "cache_unreadable"} ->
           <<error_message(<<"Failed to load history from file (", "<path>", "): ",
                             "<ReadlineError>">>)>>
      [] how = "cache_uncreatable" ->
           <<error_message(<<"Failed to create history file (", "<path>", "): ",
                             "<io::Error>">>),
             error_message(<<"Failed to load history from file (", "<path>", "): ",
                             "<ReadlineError>">>)>>
      [] how = "none" ->
           <<error_message(<<"Failed to find cache directory for history.">>)>>

\* main, and run_chat up to its loop
Startup(subcommands, configs, prompts) ==
    /\ pc = "start"
    /\ UNCHANGED <<lib_vars, history_saved>>
    /\ UNCHANGED <<files, env_key, is_terminal, last_input>>
    /\ \E config \in configs, config_loads \in BOOLEAN, command \in subcommands,
          system_prompt \in {None, <<"sp">>},
          prompt \in prompts,
          stdin \in {Ok(<<"piped">>), Err("io")},
          how \in {"env", "env_unreadable", "cache", "cache_unreadable",
                   "cache_uncreatable", "none"} :
         IF ~config_loads
         THEN /\ Terminate("Startup", 1, StartupError_Config, <<>>)
              /\ UNCHANGED <<chatbot, messages, history_file, turn>>
         ELSE LET created == main_create(command, config, env_key)
                  seeded == IF system_prompt = None THEN <<>>
                            ELSE <<Message("System", system_prompt)>>
              IN  IF ~created.ok
                  THEN /\ Terminate("Startup", 1,
                                    StartupError_Creation(created.err), <<>>)
                       /\ UNCHANGED <<chatbot, messages, history_file, turn>>
                  ELSE /\ chatbot' = created.val
                       /\ IF prompt # None
                          THEN /\ history_file' = history_file
                               /\ IF prompt = <<"-">> /\ ~stdin.ok
                                  THEN /\ messages' = seeded
                                       /\ turn' = turn
                                       /\ Terminate("Err", 1, ChatError_Read, <<>>)
                                  ELSE BeginTurn(created.val, seeded,
                                                 IF prompt = <<"-">> THEN stdin.val
                                                 ELSE prompt,
                                                 TRUE, <<>>)
                          ELSE /\ messages' = seeded
                               /\ history_file' = (how # "none")
                               /\ pc' = "awaiting"
                               /\ out' = history_setup(how)
                               /\ UNCHANGED <<stream, turn, exit>>

\* What run_chat prints about the history file when it stops on `why`
\* ("Interrupted" from readline, or "Quit" from a command); saved is whether
\* rl.save_history succeeds.
history_on_stop(why, has_file, saved) ==
    LET failed == <<error_message(<<"Failed to save history to file (", "<path>",
                                    "): ", "<ReadlineError>">>)>>
        failed_dot == <<error_message(<<"Failed to save history to file (",
                                        "<path>", "): ", "<ReadlineError>", ".">>)>>
        no_file == <<error_message(<<"Failed to save history to file (", "<path>",
                                     "): No history file specified.">>)>>
    IN  CASE why = "Interrupted" ->
               IF has_file THEN (IF saved THEN <<>> ELSE failed_dot) ELSE no_file
          [] why = "Quit" ->
               IF has_file THEN (IF saved THEN no_file ELSE failed) ELSE <<>>
          [] OTHER -> <<>>

\* What rl.save_history returned when run_chat stops on `why`: it is called
\* only for an interrupt or a quit, and only with a history file
save_history(why, has_file, saved) ==
    IF why \in {"Interrupted", "Quit"} /\ has_file
    THEN (IF saved THEN "saved" ELSE "failed")
    ELSE "none"

\* run_chat: rl.readline returns Err
ReadlineError ==
    /\ pc = "awaiting"
    /\ UNCHANGED lib_vars
    /\ \E e \in {"Interrupted", "EOF"}, saved \in BOOLEAN :
         /\ Terminate("Err", 1, ChatError_Readline(e),
                      history_on_stop(e, history_file, saved))
         /\ history_saved' = save_history(e, history_file, saved)
    /\ turn' = NoTurn
    /\ last_input' = None
    /\ UNCHANGED <<chatbot, messages, files, env_key, is_terminal, history_file>>

\* (a blank line empties the transcript)
ReadBlank_clears(lines) ==
    /\ pc = "awaiting"
    /\ UNCHANGED <<lib_vars, history_saved>>
    /\ \E input \in lines :
         /\ classify(input) = "blank"
         /\ last_input' = input
         /\ out' = <<>>
         /\ turn' = NoTurn
    /\ messages' = <<>>
    /\ UNCHANGED <<pc, chatbot, files, env_key, is_terminal,
                   history_file, stream, exit>>

\* run_chat: a blank line is read
ReadBlank(lines) ==
    /\ pc = "awaiting"
    /\ UNCHANGED <<lib_vars, history_saved>>
    /\ \E input \in lines :
         /\ classify(input) = "blank"
         /\ last_input' = input
         /\ out' = <<>>
         /\ turn' = NoTurn
    /\ UNCHANGED <<pc, chatbot, messages, files, env_key, is_terminal,
                   history_file, stream, exit>>

\* run_chat: a command line is read and handled
ReadCommand(lines) ==
    /\ pc = "awaiting"
    /\ UNCHANGED lib_vars
    /\ \E input \in lines, entries \in DirOrders(files) :
         /\ classify(input) = "command"
         /\ last_input' = input
         /\ LET done == handle_command(input, messages, chatbot, files,
                                       env_key, entries)
            IN  /\ messages' = done.messages
                /\ chatbot' = done.chatbot
                /\ files' = done.files
                /\ IF done.result.ok
                   THEN /\ pc' = "awaiting"
                        /\ out' = done.out
                        /\ UNCHANGED <<stream, exit, history_saved>>
                   ELSE IF done.result.panic
                   THEN /\ Terminate("Panic", 101, NoError, done.out)
                        /\ UNCHANGED history_saved
                   ELSE \E saved \in BOOLEAN :
                          /\ Terminate("Err", 1, ChatError_Command(done.result.err),
                                       done.out \o
                                       history_on_stop(done.result.err.type,
                                                       history_file, saved))
                          /\ history_saved' =
                                 save_history(done.result.err.type,
                                              history_file, saved)
    /\ turn' = NoTurn
    /\ UNCHANGED <<env_key, is_terminal, history_file>>

\* run_chat: any other line starts a chat turn
ReadChat(lines) ==
    /\ pc = "awaiting"
    /\ UNCHANGED <<lib_vars, history_saved>>
    /\ Len(retain_not_system(messages)) < MaxMsgs
    /\ \E input \in lines :
         /\ classify(input) = "chat"
         /\ last_input' = input
         /\ BeginTurn(chatbot, messages, input, FALSE, <<>>)
    /\ UNCHANGED <<chatbot, files, env_key, is_terminal, history_file>>

\* The Message that handle_chat_message returns when the stream has ended
handle_chat_message_reply(full_resp) == Message("Assistant", full_resp)

\* run_chat: `handle_chat_message(&session.messages, &*chatbot).await?;`
\* the Message returned is dropped
after_reply(ms, reply) == ms

\* handle_chat_message: stream.next() yields an item; items is what the
\* network can deliver
StreamNext(items) ==
    /\ pc = "streaming"
    /\ UNCHANGED <<lib_vars, history_saved>>
    /\ \E t \in (IF stream.net THEN items ELSE {Ok(<<>>)}) :
         LET item == IF stream.net THEN Gemini_decode(t) ELSE Head(stream.pending)
         IN  /\ IF stream.net THEN (stream.pulled < MaxChunks \/ ~t.ok)
                ELSE stream.pending # <<>>
             /\ IF item.ok
                THEN /\ out' = Append(out, raw_text(item.val))
                     /\ turn' = [turn EXCEPT !.yielded = Append(@, item),
                                             !.full_resp = @ \o item.val]
                     /\ stream' = [stream EXCEPT
                            !.pulled = @ + 1,
                            !.pending = IF stream.net THEN <<>> ELSE Tail(@)]
                     /\ UNCHANGED <<pc, exit>>
                ELSE IF item.panic
                THEN /\ turn' = [turn EXCEPT !.status = "panicked"]
                     /\ Terminate("Panic", 101, NoError, out)
                ELSE /\ turn' = [turn EXCEPT !.status = "failed",
                                             !.yielded = Append(@, item)]
                     /\ Terminate("Err", 1, ChatError_Chatbot(item.err), out)
    /\ UNCHANGED <<chatbot, messages, files, env_key, is_terminal, history_file,
                   last_input>>

\* (the loop goes on while the stream is still open)
StreamEnd_leaves_open ==
    /\ pc = "streaming"
    /\ UNCHANGED <<lib_vars, history_saved>>
    /\ stream.net \/ stream.pending = <<>>
    /\ messages' = after_reply(messages, handle_chat_message_reply(turn.full_resp))
    /\ turn' = [turn EXCEPT !.status = "ended"]
    /\ IF turn.oneshot \/ ~is_terminal
       THEN Terminate("Ok", 0, NoError, out)
       ELSE /\ pc' = "awaiting"
            /\ UNCHANGED <<stream, out, exit>>
    /\ UNCHANGED <<chatbot, files, env_key, is_terminal, history_file,
                   last_input>>

\* handle_chat_message: stream.next() yields None; back in run_chat
StreamEnd ==
    /\ pc = "streaming"
    /\ UNCHANGED <<lib_vars, history_saved>>
    /\ stream.net \/ stream.pending = <<>>
    /\ messages' = after_reply(messages, handle_chat_message_reply(turn.full_resp))
    /\ turn' = [turn EXCEPT !.status = "ended"]
    /\ IF turn.oneshot \/ ~is_terminal
       THEN Terminate("Ok", 0, NoError, out)
       ELSE /\ pc' = "awaiting"
            /\ stream' = NoStream
            /\ UNCHANGED <<out, exit>>
    /\ UNCHANGED <<chatbot, files, env_key, is_terminal, history_file,
                   last_input>>

\* No call on the library has been made
NoCall == [fn |-> "none"]

Init ==
    /\ pc = "start"
    /\ chatbot = NoChatbot
    /\ messages = <<>>
    /\ files = <<>>
    /\ env_key \in {None, <<"ENVKEY">>}
    /\ is_terminal \in BOOLEAN
    /\ history_file = FALSE
    /\ last_input = None
    /\ stream = NoStream
    /\ turn = NoTurn
    /\ out = <<>>
    /\ exit = NoExit
    /\ history_saved = "none"
    /\ config_file = <<>>
    /\ call = NoCall

\* The arguments and the configuration the program is started with.
Prompts == {None, <<"hi">>, <<"-">>}
NoConfigFile == { <<>> }

\* The conversation: every way to start, chat turns, the engine's commands.
Next ==
    \/ Startup(Subcommands, Configs, Prompts)
    \/ ReadlineError
    \/ ReadBlank(BlankLines)
    \/ ReadCommand(EngineLines)
    \/ ReadChat(ChatLines)
    \/ StreamNext(TransportItems)
    \/ StreamEnd

Spec == Init /\ [][Next]_vars

\* The provider: model and provider switches, and the requests that follow.
NextModel ==
    \/ Startup(Subcommands, Configs, {None})
    \/ ReadlineError
    \/ ReadBlank(BlankLines)
    \/ ReadCommand(ModelLines)
    \/ ReadChat({<<"hello">>})
    \/ StreamNext(TransportItems)
    \/ StreamEnd

SpecModel == Init /\ [][NextModel]_vars

\* The transcript and its snapshots.
NextSession ==
    \/ Startup({[kind |-> "Gemini", model |-> <<"gemini-1.5-flash">>]},
               NoConfigFile, {None})
    \/ ReadlineError
    \/ ReadBlank({<<" ">>})
    \/ ReadCommand(SessionLines)
    \/ ReadChat(ChatLines)
    \/ StreamNext(PlainItems)
    \/ StreamEnd

SpecSession == Init /\ [][NextSession]_vars

\* A snapshot that is in the session directory when the program starts (the
\* directory outlives the process): a conversation whose reply has the role
\* name "model".
OldSnapshot ==
    [messages |-> << [role |-> "user", content |-> <<"q">>],
                     [role |-> "model", content |-> <<"r", " ", "s">>] >>]

\* A file of the session directory that is no Session: the role of its message
\* is none of the names Role deserializes from
BadSnapshot ==
    [messages |-> << [role |-> "tool", content |-> <<"t">>] >>]

\* The session directory at the start: empty, or holding old.json, or bad.json
StoredDirs ==
    { <<>>, [p \in {<<"old", ".", "json">>} |-> OldSnapshot],
      [p \in {<<"bad", ".", "json">>} |-> BadSnapshot] }

\* Commands on the snapshots, with ids that have a dot, and unknown commands
StoreLines ==
    { <<"/", "clear">>, <<"/", "c">>,
      <<"/", "system", " ", "x">>,
      <<"/", "save", " ", "a">>, <<"/", "s", " ", "a", ".", "b">>,
      <<"/", "load", " ", "a">>, <<"/", "l", " ", "a", ".", "b">>,
      <<"/", "load", " ", "old">>, <<"/", "load", " ", "nosuch">>,
      <<"/", "load", " ", "bad">>,
      <<"/", "delete", " ", "a">>, <<"/", "d", " ", "a", ".", "b">>,
      <<"/", "delete", " ", "old">>, <<"/", "delete", " ", "nosuch">>,
      <<"/", "sessions">>,
      <<"/", "bogus">>, <<"/", "Clear">>, <<"/">>, <<"/", "clear", "!">> }

InitStore ==
    /\ pc = "start"
    /\ chatbot = NoChatbot
    /\ messages = <<>>
    /\ files \in StoredDirs
    /\ env_key \in {None, <<"ENVKEY">>}
    /\ is_terminal \in BOOLEAN
    /\ history_file = FALSE
    /\ last_input = None
    /\ stream = NoStream
    /\ turn = NoTurn
    /\ out = <<>>
    /\ exit = NoExit
    /\ history_saved = "none"
    /\ config_file = <<>>
    /\ call = NoCall

\* The session store: snapshots saved, loaded, deleted and listed.
NextStore ==
    \/ Startup({[kind |-> "Gemini", model |-> <<"gemini-1.5-flash">>]},
               NoConfigFile, {None})
    \/ ReadlineError
    \/ ReadBlank({<<" ">>})
    \/ ReadCommand(StoreLines)

SpecStore == InitStore /\ [][NextStore]_vars

\* ------------------------------------------------------------------ claims

\* The texts of stream items that are all Ok
texts_of(items) == [i \in 1..Len(items) |-> items[i].val]

is_quit_line(input) ==
    split_whitespace(input)[1] \in {<<"/", "quit">>, <<"/", "q">>}

count_system(ms) == Cardinality({i \in 1..Len(ms) : ms[i].role = "System"})

\* C1: after a chat turn whose stream ended without an error, the transcript
\* is the transcript before the turn, then the User message of the line, then
\* one Assistant message holding the increments yielded, concatenated in
\* arrival order.  (Stated for the turns of the loop that yielded text, where
\* the transcript is used again.)
C1_ReplyAppended ==
    (turn.status = "ended" /\ pc = "awaiting" /\ turn.yielded # <<>>) =>
        messages = turn.pre \o
            << Message("User", turn.input),
               Message("Assistant", concat(texts_of(turn.yielded))) >>

\* C2: when the stream of a chat turn yields N increments and then an error,
\* the N increments were printed in order (after the provider's prefix), no
\* Assistant message is appended, the transcript is the one before the turn
\* plus the User message, and the ChatError is reported.
C2_PartialTurnFails ==
    turn.status = "failed" =>
        LET n == Len(turn.yielded) - 1
            increments == texts_of(SubSeq(turn.yielded, 1, n))
        IN  /\ out = <<chatbot_prefix(name(chatbot))>>
                     \o [i \in 1..n |-> raw_text(increments[i])]
                     \o <<error_message(ChatbotError_to_string(turn.yielded[n + 1].err))>>
            /\ messages = Append(turn.pre, Message("User", turn.input))
            /\ \A i \in 1..Len(messages) :
                   messages[i].role = "Assistant" =>
                       i <= Len(turn.pre) /\ turn.pre[i] = messages[i]
            /\ exit.kind = "Err" /\ exit.err.type = "Chatbot"
            /\ exit.err.inner = turn.yielded[n + 1].err

\* C2: a turn of the loop in which two increments arrived before the error
C2_Witness ==
    /\ turn.status = "failed" /\ ~turn.oneshot
    /\ Len(turn.yielded) = 3
    /\ turn.yielded[1].val # turn.yielded[2].val

\* C3: after a chat turn has failed with a ChatError the engine is awaiting
\* input again; the process has not ended.
C3_FailedTurnContinues ==
    turn.status = "failed" => (pc = "awaiting" /\ exit = NoExit)

\* C4: a command other than quit, failing or not, leaves the engine awaiting
\* input: the loop does not end.
C4_CommandsKeepLoop ==
    [][ (pc = "awaiting" /\ classify(last_input') = "command"
            /\ ~is_quit_line(last_input'))
        => pc' = "awaiting" ]_vars

\* C5: the loop ends in Quit only by the quit command, and then with an
\* outcome that is no error: exit status 0, nothing reported as an error.
C5_QuitIsNoError ==
    (exit.err.type = "Command" /\ exit.err.inner = "Quit") =>
        /\ classify(last_input) = "command" /\ is_quit_line(last_input)
        /\ exit.kind = "Ok" /\ exit.code = 0
        /\ \A i \in 1..Len(out) : out[i].kind # "error"

\* C6: the model id of the active provider is in its catalog, and its label
\* is not the fallback of model().
C6_ModelInCatalog ==
    chatbot.kind # "None" =>
        /\ chatbot.model \in {available_models(chatbot)[i] :
                                 i \in 1..Len(available_models(chatbot))}
        /\ model(chatbot) \notin {Panic, <<"Invalid Model">>}

\* C6: a provider that was switched to, after a model switch and a failed one
C6_Witness ==
    /\ pc = "awaiting" /\ chatbot.kind = "Dummy" /\ chatbot.model = <<"2">>
    /\ last_input = <<"/", "model", " ", "not-a-real-model">>

\* The label of each model id (the tables of model() in gemini.rs, dummy.rs)
C7_Label(id) ==
    CASE id = <<"gemini-2.0-flash-exp">> -> <<"2.0 Flash (Experimental)">>
      [] id = <<"gemini-1.5-flash">> -> <<"1.5 Flash">>
      [] id = <<"gemini-1.5-flash-8b">> -> <<"1.5 Flash-8B">>
      [] id = <<"gemini-1.5-pro">> -> <<"1.5 Pro">>
      [] id = <<"gemini-1.0-pro">> -> <<"1.0 Pro (Deprecated)">>
      [] id = <<"1">> -> <<"Model 1">>
      [] id = <<"2">> -> <<"Model 2">>

\* The endpoint of a model id and an API key
C7_Endpoint(id, key) ==
    <<"https://generativelanguage.googleapis.com/v1beta/models/">> \o id
        \o <<":streamGenerateContent?alt=sse&key=">> \o key

\* C7: a /model command with an id of the active provider's catalog succeeds:
\* the provider then has that id, current_model() is its label (as reported),
\* the API key is unchanged; and every request of send_message goes to the
\* endpoint of the provider's current id and key.
C7_SwitchThenSend ==
    [][ /\ (/\ pc = "awaiting" /\ classify(last_input') = "command"
            /\ Len(split_whitespace(last_input')) > 1
            /\ split_whitespace(last_input')[1] \in {<<"/", "model">>, <<"/", "m">>}
            /\ contains(available_models(chatbot), split_whitespace(last_input')[2]))
           => LET id == split_whitespace(last_input')[2]
              IN  /\ pc' = "awaiting"
                  /\ chatbot'.kind = chatbot.kind
                  /\ chatbot'.model = id
                  /\ model(chatbot') = C7_Label(id)
                  /\ out' = <<app_message(<<"Chatbot model changed to ">> \o C7_Label(id))>>
                  /\ chatbot.kind = "Gemini" =>
                         /\ chatbot'.api_key = chatbot.api_key
                         /\ chatbot'.url = C7_Endpoint(id, chatbot.api_key)
        /\ (turn'.status = "open" /\ chatbot'.kind = "Gemini")
           => turn'.request[1].url = C7_Endpoint(chatbot'.model, chatbot'.api_key)
      ]_vars

\* C7: a request is open on a model that only a switch can have selected
C7_Witness ==
    /\ turn.status = "open" /\ chatbot.kind = "Gemini"
    /\ chatbot.model = <<"gemini-1.0-pro">>
    /\ turn.request[1].url = C7_Endpoint(<<"gemini-1.0-pro">>, chatbot.api_key)

\* C8: a /model command with an id outside the active provider's catalog
\* leaves the provider (id, label, endpoint) and the transcript as they were
\* and prints exactly one message, the error of InvalidModelError.
C8_InvalidModelRejected ==
    [][ (/\ pc = "awaiting" /\ classify(last_input') = "command"
         /\ Len(split_whitespace(last_input')) > 1
         /\ split_whitespace(last_input')[1] \in {<<"/", "model">>, <<"/", "m">>}
         /\ ~contains(available_models(chatbot), split_whitespace(last_input')[2]))
        => /\ pc' = "awaiting"
           /\ chatbot' = chatbot
           /\ model(chatbot') = model(chatbot)
           /\ messages' = messages
           /\ out' = <<error_message(<<"Invalid model.">>)>>
      ]_vars

\* C8: an unknown id was refused while a model chosen by a switch was active
C8_Witness ==
    /\ pc = "awaiting"
    /\ last_input = <<"/", "model", " ", "not-a-real-model">>
    /\ out = <<error_message(<<"Invalid model.">>)>>
    /\ chatbot.kind = "Gemini" /\ chatbot.model = <<"gemini-1.0-pro">>

\* C9: the transcript holds at most one System message.
C9_AtMostOneSystem == count_system(messages) <= 1

\* C9: a transcript with a System message that came back from a snapshot
C9_Witness ==
    /\ pc = "awaiting" /\ last_input = <<"/", "load", " ", "a">>
    /\ count_system(messages) = 1 /\ Len(messages) >= 3
    /\ messages[1].content = <<"be", " ", "terse">>

\* The text of a /system line: its tokens after the first, one space between
C10_Text(input) ==
    CASE input = <<"/", "system", " ", "x">> -> <<"x">>
      [] input = <<"/", "sys", " ", "be", " ", " ", "terse", " ">> ->
           <<"be", " ", "terse">>

\* C10: a /system line with text leaves exactly one System message, first in
\* the transcript, whose content is the text; the other messages are the same
\* and in the same order.
C10_SystemReplaced ==
    [][ (/\ pc = "awaiting" /\ classify(last_input') = "command"
         /\ Len(split_whitespace(last_input')) > 1
         /\ split_whitespace(last_input')[1] \in {<<"/", "system">>, <<"/", "sys">>})
        => /\ count_system(messages') = 1
           /\ messages'[1] = Message("System", C10_Text(last_input'))
           /\ SelectSeq(messages', LAMBDA m : m.role # "System")
                  = SelectSeq(messages, LAMBDA m : m.role # "System")
      ]_vars

\* C10: the text replaced a System message ahead of two User messages
C10_Witness ==
    /\ pc = "awaiting"
    /\ last_input = <<"/", "sys", " ", "be", " ", " ", "terse", " ">>
    /\ Len(messages) = 3
    /\ messages[1] = Message("System", <<"be", " ", "terse">>)
    /\ messages[2].content # messages[3].content

\* C11: the clear command leaves the transcript empty, whatever it held, and
\* leaves the active provider and the snapshots as they were.
C11_ClearEmpties ==
    [][ (/\ pc = "awaiting" /\ classify(last_input') = "command"
         /\ split_whitespace(last_input')[1] \in {<<"/", "clear">>, <<"/", "c">>})
        => /\ messages' = <<>>
           /\ chatbot' = chatbot
           /\ files' = files
           /\ pc' = "awaiting"
      ]_vars

\* C11: cleared after a transcript with a System message and two others was
\* saved, the snapshot still holding the three messages
C11_Witness ==
    /\ pc = "awaiting" /\ last_input = <<"/", "c">>
    /\ messages = <<>>
    /\ out = <<app_message(<<"Context cleared.">>)>>
    /\ <<"a", ".", "json">> \in DOMAIN files
    /\ Len(files[<<"a", ".", "json">>].messages) = 3
    /\ files[<<"a", ".", "json">>].messages[1].role = "system"

\* C12: a save under an id followed at once by a load of the same id gives
\* the transcript that was saved: the same messages, roles and contents, in
\* the same order.
C12_SaveLoadRoundTrip ==
    [][ \A id \in {<<"a">>, <<"a", ".", "b">>} :
          (/\ pc = "awaiting"
           /\ last_input \in {<<"/", "save", " ">> \o id, <<"/", "s", " ">> \o id}
           /\ last_input' \in {<<"/", "load", " ">> \o id, <<"/", "l", " ">> \o id})
          => /\ pc' = "awaiting"
             /\ messages' = messages
             /\ \A i \in 1..Len(messages) :
                    /\ messages'[i].role = messages[i].role
                    /\ messages'[i].content = messages[i].content
      ]_vars

\* C12: a transcript of a System, a User and an Assistant message came back
\* from the snapshot it was saved to
C12_Witness ==
    /\ pc = "awaiting" /\ last_input = <<"/", "load", " ", "a">>
    /\ Len(messages) = 3
    /\ messages[1].role = "System" /\ messages[3].role = "Assistant"
    /\ messages[3].content = <<"r", " ", "s">>
    /\ files[<<"a", ".", "json">>] = Session_to_string(messages)

\* The file that holds the snapshot of an id, as the program names it in
\* "Session saved to <id>.json"
snapshot_path(id) == id \o <<".", "json">>

\* C13: deleting an id that has no snapshot gives NotFound and leaves the
\* snapshots and their contents as they were; deleting an id that has one
\* removes that snapshot and no other.
C13_DeleteExactlyOne ==
    [][ \A id \in {<<"a">>, <<"a", ".", "b">>, <<"old">>, <<"nosuch">>} :
          (/\ pc = "awaiting"
           /\ last_input' \in {<<"/", "delete", " ">> \o id, <<"/", "d", " ">> \o id})
          => IF snapshot_path(id) \in DOMAIN files
             THEN /\ DOMAIN files' = DOMAIN files \ {snapshot_path(id)}
                  /\ \A p \in DOMAIN files' : files'[p] = files[p]
                  /\ pc' = "awaiting"
             ELSE /\ files' = files
                  /\ exit'.err.type = "Command" /\ exit'.err.inner = "Session"
                  /\ exit'.err.text = <<"Session not found.">>
      ]_vars

\* The role that a role name of a snapshot stands for
C14_Role(text) ==
    CASE text = "system" -> "System"
      [] text = "user" -> "User"
      [] text \in {"assistant", "model"} -> "Assistant"

\* C14: after a load that succeeds the transcript is the snapshot stored under
\* the id, message by message; nothing of the transcript before is kept.
C14_LoadReplaces ==
    [][ \A id \in {<<"a">>, <<"a", ".", "b">>, <<"old">>} :
          (/\ pc = "awaiting"
           /\ last_input' \in {<<"/", "load", " ">> \o id, <<"/", "l", " ">> \o id}
           /\ pc' = "awaiting")
          => /\ snapshot_path(id) \in DOMAIN files
             /\ LET snapshot == files[snapshot_path(id)].messages
                IN  /\ Len(messages') = Len(snapshot)
                    /\ \A i \in 1..Len(snapshot) :
                           /\ messages'[i].role = C14_Role(snapshot[i].role)
                           /\ messages'[i].content = snapshot[i].content
             /\ files' = files
      ]_vars

\* C15: a /chatbot command whose provider cannot be constructed (unknown key,
\* or gemini without an API key in the environment) leaves the active
\* provider, its variant and its model, as they were, and an error is printed.
C15_FailedSwitchKeepsProvider ==
    [][ (/\ pc = "awaiting"
         /\ \/ last_input' = <<"/", "chatbot", " ", "nope">>
            \/ last_input' = <<"/", "cb", " ", "gemini">> /\ env_key = None)
        => /\ chatbot' = chatbot
           /\ chatbot'.kind = chatbot.kind /\ chatbot'.model = chatbot.model
           /\ model(chatbot') = model(chatbot)
           /\ \E i \in 1..Len(out') :
                  /\ out'[i].kind = "error"
                  /\ out'[i].text =
                       IF last_input' = <<"/", "chatbot", " ", "nope">>
                       THEN <<"Invalid chatbot.">> ELSE <<"API key missing.">>
      ]_vars

\* C15: gemini could not be constructed while the Dummy provider was active
\* with a model it had been switched to
C15_Witness ==
    /\ last_input = <<"/", "cb", " ", "gemini">>
    /\ exit.err.type = "Command" /\ exit.err.inner = "ChatbotSwitch"
    /\ chatbot.kind = "Dummy" /\ chatbot.model = <<"2">>

\* The first tokens that select a command
C16_Known ==
    { <<"/", w>> : w \in {"clear", "c", "system", "sys", "chatbot", "cb",
                            "list_chatbots", "lc", "model", "m", "list_models",
                            "lm", "info", "i", "help", "h", "save", "s", "load",
                            "l", "sessions", "se", "delete", "d", "quit", "q"} }

\* C16: a line that begins with the sigil and whose first token is no known
\* command prints the invalid-command error and nothing else; transcript,
\* provider, model and snapshots stay as they were.
C16_InvalidCommandOnlyReports ==
    [][ (/\ pc = "awaiting" /\ last_input' # None
         /\ Len(last_input') > 0 /\ last_input'[1] = "/"
         /\ split_whitespace(last_input')[1] \notin C16_Known)
        => /\ out' = <<error_message(
                  <<"Invalid command. Use /help or /h for a list of commands.">>)>>
           /\ messages' = messages
           /\ chatbot' = chatbot
           /\ files' = files
           /\ pc' = "awaiting" /\ exit' = exit
      ]_vars

\* C16: /Clear was refused on a transcript of two messages, with a snapshot
C16_Witness ==
    /\ pc = "awaiting" /\ last_input = <<"/", "Clear">>
    /\ out = <<error_message(
           <<"Invalid command. Use /help or /h for a list of commands.">>)>>
    /\ Len(messages) = 2
    /\ DOMAIN files # {}

\* C17: a chat turn with the dummy provider whose transcript ends with the
\* User message of the line yields one increment, the text
\* `Dummy response to: "<line>".`, and appends one Assistant message with
\* that text.
C17_DummyTurnAppends ==
    (turn.status = "ended" /\ chatbot.kind = "Dummy") =>
        LET text == <<"Dummy response to: \"">> \o turn.input \o <<"\".">>
        IN  /\ turn.yielded = <<Ok(text)>>
            /\ messages = turn.pre \o << Message("User", turn.input),
                                         Message("Assistant", text) >>

\* C18: a line that is not blank and does not begin with the sigil is appended
\* to the transcript as a User message, the line being its content, and starts
\* one request; a line that begins with the sigil goes to the command
\* interpreter, is not appended and starts no request; a blank line changes
\* nothing and starts no request.
C18_LineRouting ==
    [][ (pc = "awaiting" /\ last_input' # None)
        => LET input == last_input'
               blank == \A i \in 1..Len(input) : input[i] \in {" ", "\t"}
               sigil == Len(input) > 0 /\ input[1] = "/"
               appended == Append(messages, Message("User", input))
           IN  IF blank
               THEN /\ messages' = messages /\ chatbot' = chatbot
                    /\ files' = files /\ pc' = "awaiting"
                    /\ turn'.status = "none" /\ ~stream'.open
               ELSE IF sigil
               THEN /\ messages' # appended
                    /\ turn'.status = "none" /\ ~stream'.open
               ELSE /\ messages' = appended
                    /\ turn'.status \in {"open", "failed"}
                    /\ turn'.input = input
                    /\ turn'.pre = messages
                    /\ chatbot.kind = "Gemini" => Len(turn'.request) = 1
      ]_vars

\* C18: a line whose sigil follows a space was appended as the second User
\* message and its request is open
C18_Witness ==
    /\ pc = "streaming" /\ turn.status = "open"
    /\ last_input = <<" ", "/", "clear">>
    /\ Len(messages) = 2
    /\ messages[2] = Message("User", <<" ", "/", "clear">>)

\* C19: when the input is not a terminal the loop handles one line, whatever
\* its kind, and does not wait for a second one.
C19_OneLineWhenPiped ==
    (~is_terminal /\ last_input # None) => pc # "awaiting"

\* C20: a stream is open exactly while the engine is in a chat turn, and a
\* turn starts only when none is open; while one is open no line is read and
\* no command is dispatched (line, transcript, provider and snapshots stay);
\* the engine awaits input again only when that stream has ended, and a
\* stream that has ended or yielded an error is closed.
C20_OneStreamAtATime ==
    [][ /\ stream.open <=> pc = "streaming"
        /\ stream'.open <=> pc' = "streaming"
        /\ (turn'.status = "open" /\ turn' # turn /\ pc # "streaming")
               => ~stream.open
        /\ pc = "streaming"
               => /\ last_input' = last_input /\ messages' = messages
                  /\ chatbot' = chatbot /\ files' = files
                  /\ turn'.input = turn.input /\ turn'.request = turn.request
        /\ (pc = "streaming" /\ pc' = "awaiting") => turn'.status = "ended"
        /\ turn'.status \in {"ended", "failed"} => ~stream'.open
      ]_vars

\* C20: a second turn has ended after the first one had, and no stream is
\* open while the engine awaits input
C20_Witness ==
    /\ pc = "awaiting" /\ turn.status = "ended" /\ ~stream.open
    /\ Len(turn.pre) = 1 /\ Len(messages) = 2
    /\ Len(turn.yielded) = 2

\* C21: an interrupt is acted on only at the prompt, never with a stream
\* open, and ends the program as a graceful shutdown: exit status 0 and the
\* interrupt itself not reported as an error.
C21_InterruptIsGraceful ==
    (exit.err.type = "Readline" /\ exit.err.inner = "Interrupted") =>
        /\ ~stream.open /\ turn.status # "streaming"
        /\ exit.kind = "Ok" /\ exit.code = 0
        /\ \A i \in 1..Len(out) : out[i] # error_message(exit.err.text)

\* The transcript positions that hold a System message / another message
system_positions(ms) == {i \in 1..Len(ms) : ms[i].role = "System"}
other_positions(ms) == {i \in 1..Len(ms) : ms[i].role # "System"}

\* The k-th smallest element of a set of positions
kth_position(S, k) ==
    CHOOSE i \in S : Cardinality({j \in S : j <= i}) = k

\* C23: the request built by send_message has a system_instruction exactly
\* when the transcript holds a System message, with that message's content,
\* and its contents are the transcript's other messages in transcript order,
\* each with the same role and text.
C23_RequestFromTranscript ==
    (pc = "streaming" /\ turn.request # <<>>) =>
        LET req == turn.request[1]
            sys == system_positions(messages)
            oth == other_positions(messages)
        IN  /\ (req.system_instruction # <<>>) <=> (sys # {})
            /\ sys # {} =>
                 \E i \in sys :
                    req.system_instruction =
                        << [parts |-> << [text |-> messages[i].content] >>] >>
            /\ Len(req.contents) = Cardinality(oth)
            /\ \A k \in 1..Len(req.contents) :
                 LET m == messages[kth_position(oth, k)]
                 IN  req.contents[k] =
                         [role |-> m.role, parts |-> << [text |-> m.content] >>]

\* a turn is open on a transcript with a System message and two others
C23_Witness ==
    /\ pc = "streaming" /\ turn.request # <<>>
    /\ system_positions(messages) # {}
    /\ Len(turn.request[1].contents) = 2
    /\ turn.request[1].system_instruction # <<>>

\* ================================================================ config.rs

\* DEFAULT_CONFIG of init_default_config: the raw string literal, one atom for
\* each assignment and for each run of white space around them
DEFAULT_CONFIG ==
    << "\n", "default_provider = \"gemini\"", "\n",
       "default_model = \"gemini-1.5-pro\"", "\n", " " >>

\* char::is_whitespace, for the atoms of a file
FileWS == WS \cup {"\n", "\r"}

RECURSIVE trim_start(_)
trim_start(s) ==
    IF s = <<>> THEN <<>>
    ELSE IF Head(s) \in FileWS THEN trim_start(Tail(s))
    ELSE s

RECURSIVE trim_end(_)
trim_end(s) ==
    IF s = <<>> THEN <<>>
    ELSE IF s[Len(s)] \in FileWS THEN trim_end(SubSeq(s, 1, Len(s) - 1))
    ELSE s

\* str::trim
trim(s) == trim_end(trim_start(s))

\* (the default configuration is written over whatever is there)
ConfigManager_init_overwrites(file) ==
    [file |-> <<trim(DEFAULT_CONFIG)>>, result |-> Ok(<<>>)]

\* ConfigManager::init_default_config; file is <<>> when config_path does not
\* exist, else <<content>>
ConfigManager_init_default_config(file) ==
    IF file = <<>>
    THEN [file |-> <<trim(DEFAULT_CONFIG)>>, result |-> Ok(<<>>)]
    ELSE [file |-> file, result |-> Ok(<<>>)]

\* The assignments a line of a config file can hold, as TOML reads them
TomlAssignments ==
    [a \in {"default_provider = \"gemini\"", "default_provider = \"dummy\"",
            "default_model = \"gemini-1.5-pro\"",
            "default_model = \"gemini-1.5-flash\""} |->
        CASE a = "default_provider = \"gemini\"" ->
               [key |-> "default_provider", value |-> <<"gemini">>]
          [] a = "default_provider = \"dummy\"" ->
               [key |-> "default_provider", value |-> <<"dummy">>]
          [] a = "default_model = \"gemini-1.5-pro\"" ->
               [key |-> "default_model", value |-> <<"gemini-1.5-pro">>]
          [] a = "default_model = \"gemini-1.5-flash\"" ->
               [key |-> "default_model", value |-> <<"gemini-1.5-flash">>] ]

\* ConfigManager::load: the file is read as TOML and deserialized as AppConfig
ConfigManager_load(file) ==
    IF file = <<>> THEN Err("NotFound")
    ELSE LET atoms == SelectSeq(file[1], LAMBDA a : a \notin FileWS)
             keys == [i \in 1..Len(atoms) |->
                         IF atoms[i] \in DOMAIN TomlAssignments
                         THEN TomlAssignments[atoms[i]].key ELSE "<invalid>"]
             at(k) == {i \in 1..Len(atoms) : keys[i] = k}
         IN  IF at("<invalid>") # {} THEN Err("FileParse")
             ELSE IF \E k \in {"default_provider", "default_model"} :
                        Cardinality(at(k)) > 1
                  THEN Err("FileParse")
             ELSE IF \E k \in {"default_provider", "default_model"} : at(k) = {}
                  THEN Err("MissingField")
             ELSE Ok([default_provider |->
                          TomlAssignments[atoms[CHOOSE i \in at("default_provider") : TRUE]].value,
                      default_model |->
                          TomlAssignments[atoms[CHOOSE i \in at("default_model") : TRUE]].value])

\* The config files the program can find when it starts
ConfigFiles ==
    { <<>>,
      << <<"default_provider = \"dummy\"", "\n",
           "default_model = \"gemini-1.5-flash\"", "\n">> >>,
      << <<"default_provider = \"gemini\"">> >>,
      << <<"not toml">> >>,
      << <<>> >> }

\* a caller runs ConfigManager::init_default_config
Call_init_default_config ==
    /\ LET done == ConfigManager_init_default_config(config_file)
       IN  /\ config_file' = done.file
           /\ call' = [fn |-> "init_default_config",
                       args |-> [before |-> config_file],
                       result |-> done.result]
    /\ UNCHANGED <<engine_vars, env_key>>

\* a caller runs ConfigManager::load
Call_load ==
    /\ call' = [fn |-> "load", args |-> [file |-> config_file],
                result |-> ConfigManager_load(config_file)]
    /\ UNCHANGED <<engine_vars, env_key, config_file>>

\* ============================================================== commands.rs

\* Command::from_parts: the match on the first part
Command_from_parts(parts) ==
    IF parts = <<>> THEN Err("MissingCommand")
    ELSE LET command_name == parts[1]
             named(missing, variant) ==
                 IF Len(parts) > 1
                 THEN Ok([command |-> variant, argument |-> parts[2]])
                 ELSE Err(missing)
         IN  CASE command_name \in {<<"/", "clear">>, <<"/", "c">>} ->
                    Ok([command |-> "Clear", argument |-> <<>>])
               [] command_name \in {<<"/", "system">>, <<"/", "sys">>} ->
                    IF Len(parts) > 1
                    THEN Ok([command |-> "System",
                             argument |-> Message("System",
                                                  join(Tail(parts), <<" ">>))])
                    ELSE Err("MissingPrompt")
               [] command_name \in {<<"/", "chatbot">>, <<"/", "cb">>} ->
                    named("MissingChatbotName", "SwitchChatbot")
               [] command_name \in {<<"/", "list_chatbots">>, <<"/", "lb">>} ->
                    Ok([command |-> "ListChatbots", argument |-> <<>>])
               [] command_name \in {<<"/", "model">>, <<"/", "m">>} ->
                    named("MissingModelName", "SwitchModel")
               [] command_name \in {<<"/", "list_models">>, <<"/", "lm">>} ->
                    Ok([command |-> "ListModels", argument |-> <<>>])
               [] command_name \in {<<"/", "info">>, <<"/", "i">>} ->
                    Ok([command |-> "Info", argument |-> <<>>])
               [] command_name \in {<<"/", "save">>, <<"/", "s">>} ->
                    named("MissingFilename", "Save")
               [] command_name \in {<<"/", "load">>, <<"/", "l">>} ->
                    named("MissingFilename", "Load")
               [] command_name \in {<<"/", "delete">>, <<"/", "d">>} ->
                    named("MissingFilename", "Delete")
               [] command_name \in {<<"/", "help">>, <<"/", "h">>} ->
                    Ok([command |-> "Help", argument |-> <<>>])
               [] command_name \in {<<"/", "quit">>, <<"/", "q">>} ->
                    Ok([command |-> "Quit", argument |-> <<>>])
               [] OTHER -> Err("Invalid")

\* What Command::Help prints, line by line: the two aliases, whether the
\* line shows an argument, and the command the line describes
Command_help ==
    << [long |-> <<"/", "clear">>, short |-> <<"/", "c">>,
        argument |-> FALSE, command |-> "Clear"],
       [long |-> <<"/", "system">>, short |-> <<"/", "sys">>,
        argument |-> TRUE, command |-> "System"],
       [long |-> <<"/", "chatbot">>, short |-> <<"/", "cb">>,
        argument |-> TRUE, command |-> "SwitchChatbot"],
       [long |-> <<"/", "list_chatbots">>, short |-> <<"/", "lc">>,
        argument |-> FALSE, command |-> "ListChatbots"],
       [long |-> <<"/", "model">>, short |-> <<"/", "m">>,
        argument |-> TRUE, command |-> "SwitchModel"],
       [long |-> <<"/", "list_models">>, short |-> <<"/", "lm">>,
        argument |-> FALSE, command |-> "ListModels"],
       [long |-> <<"/", "info">>, short |-> <<"/", "i">>,
        argument |-> FALSE, command |-> "Info"],
       [long |-> <<"/", "save">>, short |-> <<"/", "s">>,
        argument |-> TRUE, command |-> "Save"],
       [long |-> <<"/", "load">>, short |-> <<"/", "l">>,
        argument |-> TRUE, command |-> "Load"],
       [long |-> <<"/", "delete">>, short |-> <<"/", "d">>,
        argument |-> TRUE, command |-> "Delete"],
       [long |-> <<"/", "sessions">>, short |-> <<"/", "se">>,
        argument |-> FALSE, command |-> "Sessions"],
       [long |-> <<"/", "delete">>, short |-> <<"/", "d">>,
        argument |-> TRUE, command |-> "Delete"],
       [long |-> <<"/", "help">>, short |-> <<"/", "h">>,
        argument |-> FALSE, command |-> "Help"],
       [long |-> <<"/", "quit">>, short |-> <<"/", "q">>,
        argument |-> FALSE, command |-> "Quit"] >>

\* The part lists from_parts is called with: every alias of the help text
\* with its argument, and lines that name no command
PartLists ==
    UNION { { <<Command_help[i].long>> \o
                  (IF Command_help[i].argument THEN << <<"x">> >> ELSE <<>>),
              <<Command_help[i].short>> \o
                  (IF Command_help[i].argument THEN << <<"x">> >> ELSE <<>>) } :
            i \in 1..Len(Command_help) }
    \cup { <<>>, << <<"/", "lb">> >>, << <<"/", "Clear">> >>,
           << <<"/", "system">> >>, << <<"/", "save">> >>,
           << <<"/", "bogus">> >> }

\* a caller parses the parts of a line
Call_from_parts ==
    /\ \E parts \in PartLists :
         call' = [fn |-> "from_parts", args |-> [parts |-> parts],
                  result |-> Command_from_parts(parts)]
    /\ UNCHANGED <<engine_vars, env_key, config_file>>

\* ======================================================= Chatbot::create

\* <T as Chatbot>::create for the two providers
Chatbot_create(variant, model_id, api_key, env) ==
    CASE variant = "Gemini" -> GeminiChatbot_create(model_id, api_key, env)
      [] variant = "Dummy" -> DummyChatbot_create(model_id, api_key)

\* AVAILABLE_MODELS of a provider
Chatbot_catalog(variant) ==
    CASE variant = "Gemini" -> Gemini_AVAILABLE_MODELS
      [] variant = "Dummy" -> Dummy_AVAILABLE_MODELS

\* The model ids create is called with
CreateModels ==
    { <<"gemini-1.5-pro">>, <<"gemini-1.5-flash">>, <<"1">>, <<"no-such-model">> }

\* a caller constructs a provider
Call_create ==
    /\ \E variant \in {"Gemini", "Dummy"}, model_id \in CreateModels,
          api_key \in {None, <<"ARGKEY">>} :
         call' = [fn |-> "create",
                  args |-> [variant |-> variant, model |-> model_id,
                            api_key |-> api_key, env |-> env_key],
                  result |-> Chatbot_create(variant, model_id, api_key, env_key)]
    /\ UNCHANGED <<engine_vars, env_key, config_file>>

\* main is run up to the provider it constructs for its subcommand and its
\* configuration
Call_main_create ==
    /\ \E command \in Subcommands, config \in Configs :
         call' = [fn |-> "main_create",
                  args |-> [command |-> command, config |-> config,
                            env |-> env_key],
                  result |-> main_create(command, config, env_key)]
    /\ UNCHANGED <<engine_vars, env_key, config_file>>

\* ================================= GeminiChatbot::send_message, called alone

\* What `.send().await.map_err(..)?.bytes_stream()` and the map give the
\* caller: a stream whatever the status of the response, or the error of send
Gemini_send_message(conn, status) ==
    IF conn = "Connected" THEN Ok("ResponseStream") ELSE Err(conn)

\* The bytes of the frame that carries a JSON text
frame(doc) == <<"d", "a", "t", "a", ":", " ", doc, "\n", "\n">>

\* Frames with several candidates and parts, with no candidate, with no part
FrameChunks == { frame(d) : d \in {"J_two", "J_nocand", "J_noparts"} }

\* One frame delivered in two chunks, and two frames delivered in one chunk
SplitChunks ==
    { <<"d", "a", "t", "a", ":", " ", "J_hi_head">>,
      <<"J_hi_tail", "\n", "\n">>,
      frame("J_hi") \o frame("J_there") }

\* The body chunks of a response, by its status
BodyItems(status) ==
    IF status = 200
    THEN TransportItems \cup {Ok(c) : c \in FrameChunks \cup SplitChunks}
    ELSE { Ok(<<"J_not_json">>), Err("transport") }

\* a caller sends a message and is given the stream, or the error
Call_send_message ==
    /\ \E conn \in {"Connected", "Timeout", "NetworkError"},
          status \in {200, 500} :
         call' = [fn |-> "send_message",
                  args |-> [conn |-> conn, status |-> status],
                  result |-> Gemini_send_message(conn, status),
                  open |-> (conn = "Connected"),
                  panicked |-> FALSE,
                  received |-> <<>>,
                  yielded |-> <<>>]
    /\ UNCHANGED <<engine_vars, env_key, config_file>>

\* the caller polls the stream, whatever it yielded before; bytes_stream()
\* ends after an error of the transport
Call_stream_next ==
    /\ call.fn = "send_message"
    /\ call.open
    /\ Len(call.received) < MaxChunks
    /\ \E item \in BodyItems(call.args.status) :
         LET decoded == Gemini_decode(item)
         IN  call' = IF decoded.panic
                     THEN [call EXCEPT !.received = Append(@, item),
                                       !.open = FALSE, !.panicked = TRUE]
                     ELSE [call EXCEPT !.received = Append(@, item),
                                       !.yielded = Append(@, decoded),
                                       !.open = item.ok]
    /\ UNCHANGED <<engine_vars, env_key, config_file>>

\* the body of the response ends
Call_stream_end ==
    /\ call.fn = "send_message"
    /\ call.open
    /\ call' = [call EXCEPT !.open = FALSE]
    /\ UNCHANGED <<engine_vars, env_key, config_file>>

\* ------------------------------------------------- the library, called alone

InitLib ==
    /\ pc = "start"
    /\ chatbot = NoChatbot
    /\ messages = <<>>
    /\ files = <<>>
    /\ env_key \in {None, <<"ENVKEY">>}
    /\ is_terminal = TRUE
    /\ history_file = FALSE
    /\ last_input = None
    /\ stream = NoStream
    /\ turn = NoTurn
    /\ out = <<>>
    /\ exit = NoExit
    /\ history_saved = "none"
    /\ config_file \in ConfigFiles
    /\ call = NoCall

NextLib ==
    \/ Call_init_default_config
    \/ Call_load
    \/ Call_from_parts
    \/ Call_create
    \/ Call_main_create
    \/ Call_send_message
    \/ Call_stream_next
    \/ Call_stream_end

SpecLib == InitLib /\ [][NextLib]_vars

\* C22: create fails with UnknownModel whenever the model id is not in the
\* variant's catalog, whatever the state of the API key; otherwise, for a
\* variant that requires a key, with ApiKeyMissing when neither the argument
\* nor the environment supplies one; otherwise it returns a provider whose
\* model is the given id and whose key is the explicit one when there is one.
C22_CreateDecision ==
    call.fn = "create" =>
        LET a == call.args
            key == IF a.api_key # None THEN a.api_key ELSE a.env
        IN  IF ~contains(Chatbot_catalog(a.variant), a.model)
            THEN ~call.result.ok /\ call.result.err = "UnknownModel"
            ELSE IF a.variant = "Gemini" /\ key = None
            THEN ~call.result.ok /\ call.result.err = "ApiKeyMissing"
            ELSE /\ call.result.ok
                 /\ call.result.val.model = a.model
                 /\ a.variant = "Gemini" => call.result.val.api_key = key

\* C24: send_message against a response with a non-success HTTP status fails
\* with ServerError, which is none of Timeout, NetworkError and
\* UnexpectedResponse: the caller gets no stream, and no item of another kind.
C24_ServerError ==
    (/\ call.fn = "send_message"
     /\ call.args.conn = "Connected"
     /\ call.args.status \notin 200..299) =>
        /\ ~call.result.ok
        /\ call.result.err = "ServerError"
        /\ call.yielded = <<>>

is_frame(bytes) ==
    /\ Len(bytes) = 9
    /\ SubSeq(bytes, 1, 6) = <<"d", "a", "t", "a", ":", " ">>
    /\ bytes[7] \in DOMAIN GeminiDocs
    /\ GeminiDocs[bytes[7]].candidates # <<>>
    /\ GeminiDocs[bytes[7]].candidates[1].content.parts # <<>>
    /\ SubSeq(bytes, 8, 9) = <<"\n", "\n">>

frame_text(bytes) == GeminiDocs[bytes[7]].candidates[1].content.parts[1].text

\* C29: a malformed frame does not abort the stream of send_message: it is
\* yielded as UnexpectedResponse, and the text of every well-formed frame
\* that arrives after it is yielded, in arrival order.
C29_MalformedFrameSkipped ==
    call.fn = "send_message" =>
        \A i \in 1..Len(call.received) :
            (call.received[i].ok /\ ~is_frame(call.received[i].val)) =>
                /\ Len(call.yielded) >= i
                /\ ~call.yielded[i].ok
                /\ call.yielded[i].err = "UnexpectedResponse"
                /\ \A j \in (i + 1)..Len(call.received) :
                     (call.received[j].ok /\ is_frame(call.received[j].val)) =>
                         /\ Len(call.yielded) >= j
                         /\ call.yielded[j].ok
                         /\ call.yielded[j].val = frame_text(call.received[j].val)

\* C30: a failure of the transport while the response is streamed is yielded
\* as Timeout or NetworkError, not as UnexpectedResponse, and is the last
\* item of the stream.
C30_TransportErrorClassified ==
    call.fn = "send_message" =>
        \A i \in 1..Len(call.received) :
            ~call.received[i].ok =>
                /\ i = Len(call.received)
                /\ Len(call.yielded) >= i
                /\ ~call.yielded[i].ok
                /\ call.yielded[i].err \in {"Timeout", "NetworkError"}

\* C27: every command has a long and a short alias that the interpreter
\* accepts, case-sensitively, and every alias the help text lists for a
\* command is accepted and selects that command, sessions and list_chatbots
\* included.
C27_HelpAliasesAccepted ==
    (call.fn = "from_parts" /\ call.args.parts # <<>>) =>
        /\ \A i \in 1..Len(Command_help) :
             LET h == Command_help[i]
             IN  (/\ call.args.parts[1] \in {h.long, h.short}
                  /\ h.argument => Len(call.args.parts) > 1) =>
                     /\ call.result.ok
                     /\ call.result.val.command = h.command
        /\ call.args.parts[1] = <<"/", "Clear">> => ~call.result.ok

\* The lines that save, or delete, the snapshot of an id
save_lines(id) == {<<"/", "save", " ">> \o id, <<"/", "s", " ">> \o id}
delete_lines(id) == {<<"/", "delete", " ">> \o id, <<"/", "d", " ">> \o id}

\* C25: a snapshot is a copy: once saved under an id it stays as it is, and
\* load(id) returns the same transcript, whatever else is done, until that
\* id is saved again or deleted.
C25_SnapshotIsCopy ==
    [][ \A id \in {<<"a">>, <<"old">>} :
          (/\ snapshot_path(id) \in DOMAIN files
           /\ last_input' \notin save_lines(id) \cup delete_lines(id))
          => /\ snapshot_path(id) \in DOMAIN files'
             /\ files'[snapshot_path(id)] = files[snapshot_path(id)]
             /\ Session_load(files', id) = Session_load(files, id)
      ]_vars

\* The lines of what /sessions printed
sessions_listed(printed) ==
    {printed[i].text : i \in {j \in 1..Len(printed) : printed[j].kind = "app"}}

\* C26: /sessions reports the ids saved and not deleted, each as it was passed
\* to save, and the none-found message exactly when there is none: an id just
\* saved is listed under its own name, every name listed has a snapshot, and
\* the none-found message is printed exactly for the empty directory.
C26_SessionsListsSavedIds ==
    [][ (pc = "awaiting" /\ last_input' = <<"/", "sessions">>) =>
          /\ \A id \in {<<"a">>, <<"a", ".", "b">>} :
                last_input \in save_lines(id) =>
                    (<<"\t">> \o id) \in sessions_listed(out')
          /\ \A id \in {<<"a">>, <<"a", ".", "b">>, <<"old">>} :
                (<<"\t">> \o id) \in sessions_listed(out') =>
                    snapshot_path(id) \in DOMAIN files
          /\ (out' = <<error_message(<<"No saved sessions found.">>)>>)
                <=> (DOMAIN files = {})
      ]_vars

\* C31: for a frame that parses, the increment is the text of the first part
\* of the first candidate, whatever other candidates and parts there are; a
\* frame with no candidate, or whose first candidate has no part, yields
\* UnexpectedResponse.
C31_FirstPartOfFirstCandidate ==
    call.fn = "send_message" =>
        \A i \in 1..Len(call.yielded) :
            \A d \in DOMAIN GeminiDocs :
                (call.received[i].ok /\ call.received[i].val = frame(d)) =>
                    LET candidates == GeminiDocs[d].candidates
                    IN  IF candidates = <<>>
                        THEN /\ ~call.yielded[i].ok
                             /\ call.yielded[i].err = "UnexpectedResponse"
                        ELSE IF candidates[1].content.parts = <<>>
                        THEN /\ ~call.yielded[i].ok
                             /\ call.yielded[i].err = "UnexpectedResponse"
                        ELSE /\ call.yielded[i].ok
                             /\ call.yielded[i].val =
                                    candidates[1].content.parts[1].text

\* a frame with two candidates, the first with two parts, yielded the text of
\* the first part, and a frame with no candidate came after it
C31_Witness ==
    /\ call.fn = "send_message"
    /\ call.received = <<Ok(frame("J_two")), Ok(frame("J_nocand"))>>
    /\ call.yielded = <<Ok(<<"A">>), Err("UnexpectedResponse")>>

RECURSIVE glue(_)
\* The bytes as one run: the two halves of a JSON text that arrive next to
\* each other are that JSON text
glue(bytes) ==
    IF Len(bytes) < 2 THEN bytes
    ELSE IF bytes[1] = "J_hi_head" /\ bytes[2] = "J_hi_tail"
         THEN <<"J_hi">> \o glue(SubSeq(bytes, 3, Len(bytes)))
         ELSE <<bytes[1]>> \o glue(Tail(bytes))

\* The bytes the transport delivered, whatever the chunks were
bytes_received(items) == glue(concat([i \in 1..Len(items) |-> items[i].val]))

\* The k-th frame of a run of bytes that is made of frames
frame_at(bytes, k) == SubSeq(bytes, 9 * (k - 1) + 1, 9 * k)

\* The run of bytes is a sequence of well-formed frames
is_frames(bytes) ==
    /\ Len(bytes) % 9 = 0
    /\ \A k \in 1..(Len(bytes) \div 9) : is_frame(frame_at(bytes, k))

\* C32: the decoder works on frames, not on chunks: when the bytes received
\* are a sequence of well-formed frames, the increments yielded are the texts
\* of these frames, in order, however the bytes were cut into chunks.
C32_FramesNotChunks ==
    (/\ call.fn = "send_message"
     /\ \A i \in 1..Len(call.received) : call.received[i].ok
     /\ is_frames(bytes_received(call.received))) =>
        LET bytes == bytes_received(call.received)
        IN  /\ ~call.panicked
            /\ call.yielded =
                   [k \in 1..(Len(bytes) \div 9) |->
                       Ok(frame_text(frame_at(bytes, k)))]

\* C33: decoding never crashes: every chunk received from the transport, an
\* empty one or one shorter than the frame prefix included, results in a text
\* increment or in an UnexpectedResponse item.
C33_DecodingNeverCrashes ==
    call.fn = "send_message" =>
        /\ ~call.panicked
        /\ Len(call.yielded) = Len(call.received)
        /\ \A i \in 1..Len(call.yielded) :
              call.yielded[i].ok \/ call.yielded[i].err = "UnexpectedResponse"

\* The program is started with the dummy provider selected: the dummy
\* subcommand, or no subcommand and default_chatbot = dummy in the configuration
dummy_selected(command, config) ==
    \/ command.kind = "Dummy"
    \/ /\ command.kind = "None"
       /\ config # <<>>
       /\ config[1].default_chatbot = "dummy"

\* C34: started with the dummy provider selected, the program constructs the
\* Dummy provider, with a current model of its catalog {1, 2}.
C34_DummyStarts ==
    (call.fn = "main_create" /\ dummy_selected(call.args.command, call.args.config))
        => /\ call.result.ok
           /\ call.result.val.kind = "Dummy"
           /\ contains(Dummy_AVAILABLE_MODELS, call.result.val.model)

\* The model a provider is given when nothing selects one: the default of the
\* gemini subcommand, and the first model of the Dummy catalog
provider_default(kind) ==
    CASE kind = "Gemini" -> <<"gemini-1.5-flash">>
      [] kind = "Dummy" -> Dummy_AVAILABLE_MODELS[1]

\* C35: a /chatbot command that succeeds leaves the transcript as it was, and
\* the new provider has its default model, a member of its catalog, whatever
\* model the provider before it had.
C35_SwitchKeepsTranscript ==
    [][ (/\ pc = "awaiting"
         /\ last_input' \in {<<"/", "chatbot", " ", "dummy">>,
                             <<"/", "cb", " ", "gemini">>}
         /\ pc' = "awaiting")
        => /\ messages' = messages
           /\ chatbot'.kind = (IF last_input'[4] = "dummy" THEN "Dummy" ELSE "Gemini")
           /\ chatbot'.model = provider_default(chatbot'.kind)
           /\ contains(available_models(chatbot'), chatbot'.model)
      ]_vars

\* the provider was switched to gemini with a conversation under way
C35_Witness ==
    /\ pc = "awaiting" /\ last_input = <<"/", "cb", " ", "gemini">>
    /\ chatbot.kind = "Gemini" /\ chatbot.model = <<"gemini-1.5-flash">>
    /\ Len(messages) = 2

\* Two results of Session::load are the same result
same_loaded(r1, r2) == r1.ok = r2.ok /\ (r1.ok => r1.val = r2.val)

\* C36: snapshots saved under distinct ids are independent: a save or a
\* delete of id2 changes neither what load(id1) returns nor whether id1
\* exists, for ids that differ only after a dot too.
C36_DistinctIdsIndependent ==
    [][ \A id1, id2 \in {<<"a">>, <<"a", ".", "b">>, <<"old">>} :
          (/\ id1 # id2
           /\ pc = "awaiting"
           /\ last_input' \in save_lines(id2) \cup delete_lines(id2))
          => /\ same_loaded(Session_load(files', id1), Session_load(files, id1))
             /\ (file_path(id1) \in DOMAIN files') = (file_path(id1) \in DOMAIN files)
      ]_vars

\* The lines that load the snapshot of an id
load_lines(id) == {<<"/", "load", " ">> \o id, <<"/", "l", " ">> \o id}

\* C37: a load that fails, for an id with no snapshot or for a snapshot that
\* does not parse, leaves the transcript as it was before the command.
C37_FailedLoadKeepsTranscript ==
    [][ \A id \in {<<"a">>, <<"a", ".", "b">>, <<"old">>, <<"nosuch">>, <<"bad">>} :
          (/\ pc = "awaiting"
           /\ last_input' \in load_lines(id)
           /\ ~Session_load(files, id).ok)
          => /\ messages' = messages
             /\ files' = files
             /\ exit'.err.type = "Command" /\ exit'.err.inner = "Session"
      ]_vars

\* the load of a snapshot that does not parse failed on a transcript that
\* holds a System message
C37_Witness ==
    /\ last_input = <<"/", "load", " ", "bad">>
    /\ exit.err.type = "Command"
    /\ exit.err.text = SessionError_to_string("Serialize")
    /\ Len(messages) > 0 /\ messages[1].role = "System"

\* The error messages of a list of printed lines that say the line history
\* could not be saved
failed_to_save(printed) ==
    {i \in 1..Len(printed) :
        /\ printed[i].kind = "error"
        /\ printed[i].text[1] = "Failed to save history to file ("}

\* C38: when the user quits, a "Failed to save history" error is reported
\* only if saving the line history failed; when the history file is saved
\* no such error is printed.
C38_QuitReportsRealSaveFailure ==
    (exit.err.type = "Command" /\ exit.err.inner = "Quit") =>
        (failed_to_save(out) # {} => history_saved = "failed")

====
